---- MODULE Spec2Model ----
(***************************************************************************)
(* A model of the glTF 2.0 loader of the `gltf` crate (src/src/v2):        *)
(* reference resolution (Root::get / Root::try_get), the validation pass   *)
(* (Root::validate and the per-entity Validate implementations) and the    *)
(* import pipeline (import, Root::load).                                   *)
(*                                                                         *)
(* An Option<T> is a sequence of length 0 (None) or 1 (Some).  An Index<T> *)
(* is the natural number it wraps.  A u32 byte quantity is a pair of       *)
(* 16-bit halves, so that 32-bit sums, their carry and their wrap-around   *)
(* are computed exactly.                                                   *)
(***************************************************************************)
EXTENDS Integers, Sequences, FiniteSets, TLC

VARIABLES
    overflow_checks, \* build profile: does `a + b` on u32 panic on overflow (debug) or wrap (release)
    input,           \* what the file at `path` holds
    pc,              \* position of import()
    raw,             \* Option<raw::root::Root>: the parsed document
    buffer_data,     \* preloaded_buffer_data of Root::load
    image_data,      \* preloaded_image_data of Root::load
    log,             \* what import has done so far: the files read, the parse, the validate call
    errs,            \* import's `errs` vector, filled by err_fn
    warns,           \* what warn_fn has printed
    result,          \* Option<Result<Root, ImportError>>: what import returned
    lookup,          \* the last get / try_get call of a consumer and its outcome
    iter,            \* the accessor::Iter a consumer made, and what it has read through it
    visit,           \* the entity iterator a consumer holds, and what it has returned
    aligned,         \* the AlignedBufferData a caller made, and the slice it last borrowed
    wire             \* an Index on its way through serde: the value, its JSON token, the parse

vars == <<overflow_checks, input, pc, raw, buffer_data, image_data, log,
          errs, warns, result, lookup, iter, visit, aligned, wire>>

----------------------------------------------------------------------------
(* Bounds of the model. *)

\* Index values range over 0..MaxIdx.
MaxIdx == 1
\* Lists held by one entity (children, joints, scene nodes, animation samplers) have at most MaxList entries.
MaxList == 1
\* Every collection holds up to MaxFill plain entities in front of the varied one.
MaxFill == 1
\* Byte quantities range over the multiples of four up to 4 * MaxWords, and as many just below 2^32.
MaxWords == 3

----------------------------------------------------------------------------
(* Option and small helpers. *)

None == <<>>
Some(v) == <<v>>
IsSome(o) == Len(o) = 1
IsNone(o) == Len(o) = 0
Unwrap(o) == o[1]

OptionOf(S) == {None} \cup {Some(v) : v \in S}

RECURSIVE SeqsUpTo(_, _)
SeqsUpTo(S, n) ==
    IF n = 0 THEN {<<>>}
    ELSE LET shorter == SeqsUpTo(S, n - 1)
         IN  shorter \cup {Append(s, x) : s \in {t \in shorter : Len(t) = n - 1}, x \in S}

RECURSIVE Repeat(_, _)
Repeat(x, n) == IF n = 0 THEN <<>> ELSE Append(Repeat(x, n - 1), x)

----------------------------------------------------------------------------
(* u32 arithmetic on [hi, lo] pairs of 16-bit halves. *)

Half == 2^16

U32(h, l) == [hi |-> h, lo |-> l]

\* The exact sum of two u32 values: 33 bits, `carry` being bit 32.
WideAdd(a, b) ==
    LET l == a.lo + b.lo
        h == a.hi + b.hi + (l \div Half)
    IN  [carry |-> h \div Half, hi |-> h % Half, lo |-> l % Half]

\* a > b on u32.
U32Gt(a, b) == a.hi > b.hi \/ (a.hi = b.hi /\ a.lo > b.lo)

\* The exact (unbounded integer) sum a + b exceeds c.
ExactSumExceeds(a, b, c) ==
    LET s == WideAdd(a, b) IN s.carry = 1 \/ U32Gt(U32(s.hi, s.lo), c)

ByteVals ==
    {U32(0, 4 * k) : k \in 0..MaxWords} \cup {U32(Half - 1, Half - 4 * k) : k \in 1..MaxWords}

----------------------------------------------------------------------------
(* Reference resolution: impl_try_get! and impl_get! of root.rs. *)

\* A faulty try_get that refuses the last element of the collection.
TryGet_RefusesLast(collection, index) ==
    IF index + 1 < Len(collection)
    THEN [ok |-> TRUE, value |-> Some(collection[index + 1])]
    ELSE [ok |-> FALSE, value |-> None]

\* Root::try_get: `self.raw.$field.get(index.value() as usize).ok_or(())`.
\* Sequences are 1-based, slices 0-based.
TryGet(collection, index) ==
    IF index < Len(collection)
    THEN [ok |-> TRUE, value |-> Some(collection[index + 1])]
    ELSE [ok |-> FALSE, value |-> None]

\* Root::get: `&self.raw.$field[index.value() as usize]`; slice indexing
\* panics when the index is out of bounds.
Get(collection, index) ==
    IF index < Len(collection)
    THEN [panicked |-> FALSE, value |-> Some(collection[index + 1])]
    ELSE [panicked |-> TRUE, value |-> None]

----------------------------------------------------------------------------
(* Diagnostics and the per-entity Validate implementations.  Each returns *)
(* the calls it makes to `warn` and to `err`, in order, and whether it     *)
(* panicked before returning.                                              *)

Diag(source, description) == [source |-> source, description |-> description]

Report(w, e) == [warns |-> w, errs |-> e, panicked |-> FALSE]

\* the calls `err(source, "Index out of range")` of a loop
\* `for (i, x) in list.iter().enumerate() { if let Err(_) = root.try_get(x) { .. } }`
RECURSIVE UnresolvedEntries(_, _, _, _, _)
UnresolvedEntries(list, collection, before, after, i) ==
    IF i > Len(list) THEN <<>>
    ELSE (IF TryGet(collection, list[i]).ok THEN <<>>
          ELSE <<Diag(before \o ToString(i - 1) \o after, "Index out of range")>>)
         \o UnresolvedEntries(list, collection, before, after, i + 1)

\* `if let Some(x) = field { if let Err(_) = root.try_get(x) { err(source, ..) } }`
UnresolvedOption(field, collection, source) ==
    IF IsSome(field) /\ ~TryGet(collection, Unwrap(field)).ok
    THEN <<Diag(source, "Index out of range")>>
    ELSE <<>>

\* `if let Err(_) = root.try_get(&field) { err(source, ..) }`
Unresolved(index, collection, source) ==
    IF TryGet(collection, index).ok THEN <<>> ELSE <<Diag(source, "Index out of range")>>

\* warn_fn / err_fn of Root::validate: `format!("<prefix>[{}].{}", i, source)`.
RECURSIVE Prefixed(_, _, _)
Prefixed(diags, prefix, i) ==
    IF diags = <<>> THEN <<>>
    ELSE <<Diag(prefix \o "[" \o ToString(i) \o "]." \o Head(diags).source,
                Head(diags).description)>>
         \o Prefixed(Tail(diags), prefix, i)

\* Validate for Buffer: nop.
ValidateBuffer(doc, buffer) == Report(<<>>, <<>>)

\* The u32 expression `self.byte_offset + self.byte_length > buffer.byte_length`
\* in a build without overflow checks: the sum wraps modulo 2^32.
BufferViewOversized(view, buffer) ==
    LET s == WideAdd(view.byte_offset, view.byte_length)
    IN  U32Gt(U32(s.hi, s.lo), buffer.byte_length)

\* Validate for BufferView.  With overflow checks the sum panics when it
\* does not fit in 32 bits.
ValidateBufferView(doc, view, checks) ==
    LET found == TryGet(doc.buffers, view.buffer)
    IN  IF found.ok
        THEN IF checks /\ WideAdd(view.byte_offset, view.byte_length).carry = 1
             THEN [warns |-> <<>>, errs |-> <<>>, panicked |-> TRUE]
             ELSE IF BufferViewOversized(view, Unwrap(found.value))
                  THEN Report(<<>>, <<Diag("{byte_offset, byte_length}", "Oversized buffer view")>>)
                  ELSE Report(<<>>, <<>>)
        ELSE Report(<<>>, <<Diag("buffer", "Index out of range")>>)

\* A faulty camera check that reports the redundant block as an error.
ValidateCamera_RedundantIsError(doc, camera) ==
    LET other == IF camera.ty = "orthographic" THEN "perspective" ELSE "orthographic"
    IN  Report(<<>>,
               (IF IsNone(camera[camera.ty]) THEN <<Diag(camera.ty, "Missing data")>> ELSE <<>>)
               \o (IF IsSome(camera[other]) THEN <<Diag(other, "Redundant data")>> ELSE <<>>))

\* Validate for Camera (raw/camera.rs; camera.rs holds the same body).
ValidateCamera(doc, camera) ==
    IF camera.ty = "orthographic"
    THEN Report(IF IsSome(camera.perspective) THEN <<Diag("perspective", "Redundant data")>> ELSE <<>>,
                IF IsNone(camera.orthographic) THEN <<Diag("orthographic", "Missing data")>> ELSE <<>>)
    ELSE Report(IF IsSome(camera.orthographic) THEN <<Diag("orthographic", "Redundant data")>> ELSE <<>>,
                IF IsNone(camera.perspective) THEN <<Diag("perspective", "Missing data")>> ELSE <<>>)

\* Validate for Image.
ValidateImage(doc, image) ==
    Report(<<>>, UnresolvedOption(image.buffer_view, doc.buffer_views, "bufferView"))

\* Validate for Node: the loop over `children` sits inside the
\* `if let Some(camera)` block.
ValidateNode(doc, node) ==
    Report(<<>>,
           (IF IsSome(node.camera)
            THEN UnresolvedOption(node.camera, doc.cameras, "camera")
                 \o UnresolvedEntries(node.children, doc.nodes, "children[", "]", 1)
            ELSE <<>>)
           \o UnresolvedOption(node.mesh, doc.meshes, "mesh")
           \o UnresolvedOption(node.skin, doc.skins, "skin"))

\* Validate for Scene.
ValidateScene(doc, scene) ==
    Report(<<>>, UnresolvedEntries(scene.nodes, doc.nodes, "node[", "]", 1))

\* Validate for Skin.
ValidateSkin(doc, skin) ==
    Report(<<>>,
           UnresolvedOption(skin.inverse_bind_matrices, doc.accessors, "accessor")
           \o UnresolvedEntries(skin.joints, doc.nodes, "joints[", "]", 1)
           \o UnresolvedOption(skin.skeleton, doc.nodes, "skeleton"))

\* A faulty texture check that leaves out the sampler.
ValidateTexture_SkipsSampler(doc, texture) ==
    Report(<<>>, Unresolved(texture.source, doc.images, "source"))

\* Validate for Texture.
ValidateTexture(doc, texture) ==
    Report(<<>>,
           Unresolved(texture.sampler, doc.samplers, "sampler")
           \o Unresolved(texture.source, doc.images, "source"))

\* The first loop of Validate for Animation, over `samplers`.
RECURSIVE AnimationSamplerErrs(_, _, _)
AnimationSamplerErrs(doc, animation, i) ==
    IF i > Len(animation.samplers) THEN <<>>
    ELSE Unresolved(animation.samplers[i].input, doc.accessors,
                    "samplers[" \o ToString(i - 1) \o "].input")
         \o Unresolved(animation.samplers[i].output, doc.accessors,
                       "samples[" \o ToString(i - 1) \o "].output")
         \o AnimationSamplerErrs(doc, animation, i + 1)

\* The second loop of Validate for Animation, over `channels`.
RECURSIVE AnimationChannelErrs(_, _, _)
AnimationChannelErrs(doc, animation, i) ==
    IF i > Len(animation.channels) THEN <<>>
    ELSE Unresolved(animation.channels[i].target.node, doc.nodes,
                    "channels[" \o ToString(i - 1) \o "].target.node")
         \o (IF animation.channels[i].sampler >= Len(animation.samplers)
             THEN <<Diag("channels[" \o ToString(i - 1) \o "].sampler", "Index out of range")>>
             ELSE <<>>)
         \o AnimationChannelErrs(doc, animation, i + 1)

\* Validate for Animation.
ValidateAnimation(doc, animation) ==
    Report(<<>>, AnimationSamplerErrs(doc, animation, 1) \o AnimationChannelErrs(doc, animation, 1))

\* Validate for Accessor and Material (raw/accessor.rs, raw/material.rs):
\* nothing is reported for the fields modelled.
ValidateAccessor(doc, accessor) == Report(<<>>, <<>>)
ValidateMaterial(doc, material) == Report(<<>>, <<>>)

\* A faulty table that takes a float triple for TANGENT.
ValidAttribute_TangentTriple(semantic, component_type, kind) ==
    CASE semantic \in {"POSITION", "NORMAL", "TANGENT"} ->
           component_type = "F32" /\ kind = "Vec3"
      [] semantic = "COLOR_0" ->
           component_type \in {"U8", "U16", "F32"} /\ kind \in {"Vec3", "Vec4"}
      [] semantic \in {"JOINTS_0", "WEIGHTS_0"} ->
           component_type \in {"U8", "U16"} /\ kind = "Vec4"
      [] semantic = "TEXCOORD_0" -> component_type \in {"U8", "U16", "F32"} /\ kind = "Vec2"

\* The compatibility table of the mesh primitive check, keyed by semantic:
\* the (component type, shape) pairs an attribute's accessor may have.
ValidAttribute(semantic, component_type, kind) ==
    CASE semantic \in {"POSITION", "NORMAL"} -> component_type = "F32" /\ kind = "Vec3"
      [] semantic = "TANGENT" -> component_type = "F32" /\ kind = "Vec4"
      [] semantic = "COLOR_0" ->
           component_type \in {"U8", "U16", "F32"} /\ kind \in {"Vec3", "Vec4"}
      [] semantic \in {"JOINTS_0", "WEIGHTS_0"} ->
           component_type \in {"U8", "U16"} /\ kind = "Vec4"
      [] semantic = "TEXCOORD_0" -> component_type \in {"U8", "U16", "F32"} /\ kind = "Vec2"

\* The attributes k, k + 1, .. of a primitive: the accessor must resolve and
\* its pair must be in the table; a mismatch is an error naming the semantic.
RECURSIVE AttributeErrs(_, _, _)
AttributeErrs(doc, attributes, k) ==
    IF k > Len(attributes) THEN <<>>
    ELSE LET semantic == attributes[k].semantic
             source == "attributes[" \o semantic \o "]"
             found == TryGet(doc.accessors, attributes[k].accessor)
         IN  (IF ~found.ok THEN <<Diag(source, "Index out of range")>>
              ELSE IF ValidAttribute(semantic, Unwrap(found.value).component_type,
                                     Unwrap(found.value).kind)
              THEN <<>>
              ELSE <<Diag(source, "Invalid accessor for attribute " \o semantic)>>)
             \o AttributeErrs(doc, attributes, k + 1)

RECURSIVE PrimitiveErrs(_, _, _)
PrimitiveErrs(doc, primitives, j) ==
    IF j > Len(primitives) THEN <<>>
    ELSE Prefixed(AttributeErrs(doc, primitives[j].attributes, 1), "primitives", j - 1)
         \o PrimitiveErrs(doc, primitives, j + 1)

\* Validate for Mesh (raw/mesh.rs): the attribute check of each primitive.
ValidateMesh(doc, mesh) == Report(<<>>, PrimitiveErrs(doc, mesh.primitives, 1))

\* The dispatch of `entity.validate(self, warn_fn, err_fn)` on the entity's type.
EntityReport(kind, doc, entity, checks) ==
    CASE kind = "accessors" -> ValidateAccessor(doc, entity)
      [] kind = "animations" -> ValidateAnimation(doc, entity)
      [] kind = "buffers" -> ValidateBuffer(doc, entity)
      [] kind = "buffer_views" -> ValidateBufferView(doc, entity, checks)
      [] kind = "cameras" -> ValidateCamera(doc, entity)
      [] kind = "images" -> ValidateImage(doc, entity)
      [] kind = "materials" -> ValidateMaterial(doc, entity)
      [] kind = "meshes" -> ValidateMesh(doc, entity)
      [] kind = "nodes" -> ValidateNode(doc, entity)
      [] kind = "scenes" -> ValidateScene(doc, entity)
      [] kind = "skins" -> ValidateSkin(doc, entity)
      [] kind = "textures" -> ValidateTexture(doc, entity)

\* One loop `for (i, x) in self.raw.<kind>.iter().enumerate()` of
\* Root::validate, from entity number i - 1 on.  A panic in an entity's check
\* unwinds out of the loop.
RECURSIVE CollectionReport(_, _, _, _, _)
CollectionReport(doc, kind, prefix, checks, i) ==
    IF i > Len(doc[kind]) THEN Report(<<>>, <<>>)
    ELSE LET r == EntityReport(kind, doc, doc[kind][i], checks)
             w == Prefixed(r.warns, prefix, i - 1)
             e == Prefixed(r.errs, prefix, i - 1)
         IN  IF r.panicked THEN [warns |-> w, errs |-> e, panicked |-> TRUE]
             ELSE LET rest == CollectionReport(doc, kind, prefix, checks, i + 1)
                  IN  [warns |-> w \o rest.warns, errs |-> e \o rest.errs,
                       panicked |-> rest.panicked]

\* A faulty default-scene check that accepts the index one past the end.
DefaultSceneReport_AcceptsOnePast(doc) ==
    Report(<<>>,
           IF doc.default_scene > Len(doc.scenes)
           THEN <<Diag("scene", "Index out of range")>> ELSE <<>>)

\* `if let Err(_) = self.try_get(&self.raw.default_scene) { err("scene", ..) }`
DefaultSceneReport(doc) ==
    Report(<<>>, Unresolved(doc.default_scene, doc.scenes, "scene"))

----------------------------------------------------------------------------
(* The documents the model is run on. *)

Indices == 0..MaxIdx

PlainAccessor ==
    [buffer_view |-> 0, byte_offset |-> 0, component_type |-> "F32", count |-> 0,
     kind |-> "Vec3"]
PlainAnimation == [channels |-> <<>>, samplers |-> <<>>]
PlainBuffer == [byte_length |-> U32(0, 12), uri |-> "buffer.bin"]
PlainBufferView ==
    [buffer |-> 0, byte_length |-> U32(0, 0), byte_offset |-> U32(0, 0), byte_stride |-> 0]
PlainCamera == [ty |-> "perspective", orthographic |-> None, perspective |-> Some("perspective")]
PlainImage == [buffer_view |-> None, uri |-> Some("image.png")]
PlainMaterial == [name |-> "material"]
PlainMesh == [primitives |-> <<>>]
PlainNode == [camera |-> None, children |-> <<>>, mesh |-> None, skin |-> None]
PlainSampler == [name |-> "sampler"]
PlainScene == [nodes |-> <<>>]
PlainSkin == [inverse_bind_matrices |-> None, joints |-> <<>>, skeleton |-> None]
PlainTexture == [sampler |-> 0, source |-> 0]

\* A document whose every collection holds n plain entities, and one more
\* scene for the default scene to refer to: one without diagnostics.
PlainDoc(n) ==
    [accessors |-> Repeat(PlainAccessor, n),
     animations |-> Repeat(PlainAnimation, n),
     buffers |-> Repeat(PlainBuffer, n),
     buffer_views |-> Repeat(PlainBufferView, n),
     default_scene |-> 0,
     cameras |-> Repeat(PlainCamera, n),
     images |-> Repeat(PlainImage, n),
     materials |-> Repeat(PlainMaterial, n),
     meshes |-> Repeat(PlainMesh, n),
     nodes |-> Repeat(PlainNode, n),
     samplers |-> Repeat(PlainSampler, n),
     scenes |-> Repeat(PlainScene, n + 1),
     skins |-> Repeat(PlainSkin, n),
     textures |-> Repeat(PlainTexture, n)]

ComponentTypes == {"U8", "U16", "U32", "F32"}
Kinds == {"Scalar", "Vec2", "Vec3", "Vec4"}
Semantics == {"POSITION", "NORMAL", "TANGENT", "COLOR_0", "JOINTS_0", "WEIGHTS_0", "TEXCOORD_0"}

\* the accessors that differ from the plain one in their element type
Accessors ==
    {[PlainAccessor EXCEPT !.component_type = t, !.kind = k] : t \in ComponentTypes, k \in Kinds}

\* the meshes of one primitive with one attribute
Attributes == [semantic : Semantics, accessor : Indices]
Meshes == {[primitives |-> <<[attributes |-> <<a>>]>>] : a \in Attributes}

AnimationSamplers == [input : Indices, output : Indices]
AnimationChannels == [sampler : Indices, target : [node : Indices]]

Animations ==
    [channels : SeqsUpTo(AnimationChannels, MaxList), samplers : SeqsUpTo(AnimationSamplers, MaxList)]
Buffers == [byte_length : {U32(0, 4 * k) : k \in 0..MaxWords}, uri : {"buffer.bin"}]
BufferViews ==
    [buffer : Indices, byte_length : ByteVals, byte_offset : ByteVals, byte_stride : {0}]
Cameras ==
    [ty : {"orthographic", "perspective"}, orthographic : OptionOf({"orthographic"}),
     perspective : OptionOf({"perspective"})]
Images == [buffer_view : OptionOf(Indices), uri : OptionOf({"image.png"})]
Nodes ==
    [camera : OptionOf(Indices), children : SeqsUpTo(Indices, MaxList),
     mesh : OptionOf(Indices), skin : OptionOf(Indices)]
Scenes == [nodes : SeqsUpTo(Indices, MaxList)]
Skins ==
    [inverse_bind_matrices : OptionOf(Indices), joints : SeqsUpTo(Indices, MaxList),
     skeleton : OptionOf(Indices)]
Textures == [sampler : Indices, source : Indices]

\* The documents that add one entity to a plain document of n entities per
\* collection, in the collection `kind`.  With a buffer view the buffers take
\* any length; with a mesh the accessors take any element type; with a scene
\* the default scene takes any index; with a buffer view or no entity added
\* the document has no scenes or the plain ones.
VariedDocs(n, kind) ==
    LET d == PlainDoc(n)
    IN  CASE kind = "none" ->
               {[d EXCEPT !.default_scene = s, !.scenes = Repeat(PlainScene, k)] :
                   s \in Indices, k \in {0, n + 1}}
          [] kind = "animations" -> {[d EXCEPT !.animations = Append(@, x)] : x \in Animations}
          [] kind = "buffer_views" ->
               {[d EXCEPT !.buffers = Repeat(b, n), !.buffer_views = Append(@, x),
                          !.scenes = Repeat(PlainScene, k)] :
                   b \in Buffers, x \in BufferViews, k \in {0, n + 1}}
          [] kind = "cameras" -> {[d EXCEPT !.cameras = Append(@, x)] : x \in Cameras}
          [] kind = "images" -> {[d EXCEPT !.images = Append(@, x)] : x \in Images}
          [] kind = "meshes" ->
               {[d EXCEPT !.accessors = Repeat(a, n), !.meshes = Append(@, x)] :
                   a \in Accessors, x \in Meshes}
          [] kind = "nodes" -> {[d EXCEPT !.nodes = Append(@, x)] : x \in Nodes}
          [] kind = "scenes" ->
               {[d EXCEPT !.scenes = Append(@, x), !.default_scene = s] :
                   x \in Scenes, s \in Indices}
          [] kind = "skins" -> {[d EXCEPT !.skins = Append(@, x)] : x \in Skins}
          [] kind = "textures" -> {[d EXCEPT !.textures = Append(@, x)] : x \in Textures}

VariedKinds ==
    {"none", "animations", "buffer_views", "cameras", "images", "meshes", "nodes", "scenes",
     "skins", "textures"}

----------------------------------------------------------------------------
(* Root::validate. *)

\* The two results of running a part of the pass after another.
Then(first, second) ==
    IF first.panicked THEN first
    ELSE [warns |-> first.warns \o second.warns, errs |-> first.errs \o second.errs,
          panicked |-> second.panicked]

\* A faulty pass that runs the loop over the textures first.
RootValidate_TexturesFirst(doc, checks) ==
    Then(CollectionReport(doc, "textures", "textures", checks, 1),
    Then(CollectionReport(doc, "accessors", "accessors", checks, 1),
    Then(CollectionReport(doc, "animations", "animations", checks, 1),
    Then(CollectionReport(doc, "buffers", "buffers", checks, 1),
    Then(CollectionReport(doc, "buffer_views", "bufferViews", checks, 1),
    Then(CollectionReport(doc, "cameras", "cameras", checks, 1),
    Then(CollectionReport(doc, "images", "images", checks, 1),
    Then(CollectionReport(doc, "materials", "materials", checks, 1),
    Then(CollectionReport(doc, "meshes", "mesh", checks, 1),
    Then(CollectionReport(doc, "nodes", "node", checks, 1),
    Then(CollectionReport(doc, "scenes", "scenes", checks, 1),
    Then(CollectionReport(doc, "skins", "skins", checks, 1),
         DefaultSceneReport(doc)))))))))))))

\* Root::validate: the loops in the order of root.rs, each with the prefix
\* its closures format, and the default-scene check between skins and textures.
RootValidate(doc, checks) ==
    Then(CollectionReport(doc, "accessors", "accessors", checks, 1),
    Then(CollectionReport(doc, "animations", "animations", checks, 1),
    Then(CollectionReport(doc, "buffers", "buffers", checks, 1),
    Then(CollectionReport(doc, "buffer_views", "bufferViews", checks, 1),
    Then(CollectionReport(doc, "cameras", "cameras", checks, 1),
    Then(CollectionReport(doc, "images", "images", checks, 1),
    Then(CollectionReport(doc, "materials", "materials", checks, 1),
    Then(CollectionReport(doc, "meshes", "mesh", checks, 1),
    Then(CollectionReport(doc, "nodes", "node", checks, 1),
    Then(CollectionReport(doc, "scenes", "scenes", checks, 1),
    Then(CollectionReport(doc, "skins", "skins", checks, 1),
    Then(DefaultSceneReport(doc),
         CollectionReport(doc, "textures", "textures", checks, 1)))))))))))))

----------------------------------------------------------------------------
(* import and Root::load. *)

NoLookup == [op |-> "none", kind |-> "none", index |-> 0, ok |-> FALSE, panicked |-> FALSE,
             value |-> None]

\* No Index is being serialized or deserialized.
NoWire == [value |-> None, token |-> None, parsed |-> None]

\* No AlignedBufferData has been made.  `cap` is data.len(), a usize held as
\* [carry, hi, lo]; `len` and `offset` are the fields; `address` is
\* data.as_ptr(); `slice` is the outcome of the last deref.
NoAligned ==
    [made |-> FALSE, cap |-> [carry |-> 0, hi |-> 0, lo |-> 0], len |-> U32(0, 0),
     offset |-> 0, address |-> 0, slice |-> None]

\* No entity iterator (IterAttributes, IterNodes, IterChildNodes) is held.
\* `rest` is what the iterator has yet to visit; `items` what it returned.
NoVisit == [of |-> "none", rest |-> <<>>, parent |-> None, items |-> <<>>, nones |-> 0]

\* No accessor::Iter has been asked for.  `count`, `ptr` and `stride` are the
\* fields of Iter, `ptr` as a byte offset into the parent buffer's data; the
\* rest records the call that made it and what was done through it.
NoIter ==
    [variant |-> "none", size |-> 0, accessor |-> 0, resolved |-> FALSE, created |-> FALSE,
     count |-> 0, ptr |-> 0, stride |-> 0, reads |-> <<>>, yielded |-> 0, nones |-> 0,
     hint |-> None]

Event(op, index, ok) == [op |-> op, index |-> index, ok |-> ok]

Returned(tag, e, root) == Some([tag |-> tag, errs |-> e, root |-> root])

\* root_scene_default of raw/root.rs: `Index::new(0)`.
root_scene_default == 0

\* The `scene` members of the files read as the document d: the member may be
\* left out when the default scene is the serde default.  Files that vary
\* another collection leave it out.
SceneMembers(d, kind) ==
    IF kind \in {"none", "scenes"}
    THEN {Some(d.default_scene)} \cup (IF d.default_scene = root_scene_default THEN {None} ELSE {})
    ELSE {None}

\* serde_json::from_str for raw::root::Root: `scene` is renamed to
\* default_scene and takes root_scene_default() when the file has no such member.
Deserialize(file) ==
    [Unwrap(file.doc) EXCEPT
        !.default_scene = IF IsNone(file.scene) THEN root_scene_default ELSE Unwrap(file.scene)]

\* import is about to run on a file that is missing, binary glTF, not a
\* glTF document, or the text of a document.
Init ==
    /\ \/ \E k \in {"missing", "binary", "malformed"} :
             input = [kind |-> k, doc |-> None, scene |-> None]
       \/ \E n \in 0..MaxFill, kind \in VariedKinds :
             \E d \in VariedDocs(n, kind) :
                \E scene \in SceneMembers(d, kind) :
                   input = [kind |-> "json", doc |-> Some(d), scene |-> scene]
    /\ overflow_checks \in BOOLEAN
    /\ pc = "read"
    /\ raw = None
    /\ buffer_data = <<>>
    /\ image_data = <<>>
    /\ log = <<>>
    /\ errs = <<>>
    /\ warns = <<>>
    /\ result = None
    /\ lookup = NoLookup
    /\ iter = NoIter
    /\ visit = NoVisit
    /\ aligned = NoAligned
    /\ wire = NoWire

\* import up to the call of Root::load: open and read the file, refuse binary
\* glTF, deserialize.
ImportRead ==
    /\ pc = "read"
    /\ log' = IF input.kind = "missing" THEN <<Event("read_gltf", 0, FALSE)>>
               ELSE IF input.kind = "binary" THEN <<Event("read_gltf", 0, TRUE)>>
               ELSE <<Event("read_gltf", 0, TRUE), Event("parse", 0, input.kind = "json")>>
    /\ CASE input.kind = "missing" ->
              /\ result' = Returned("Io", <<>>, None) /\ pc' = "done" /\ raw' = raw
         [] input.kind = "binary" ->
              /\ result' = Returned("ExtensionUnsupported", <<>>, None) /\ pc' = "done"
              /\ raw' = raw
         [] input.kind = "malformed" ->
              /\ result' = Returned("Deserialize", <<>>, None) /\ pc' = "done" /\ raw' = raw
         [] input.kind = "json" ->
              /\ raw' = Some(Deserialize(input)) /\ pc' = "load" /\ result' = result
    /\ UNCHANGED <<overflow_checks, input, buffer_data, image_data, errs, warns, lookup, iter, visit, aligned, wire>>

\* A faulty loop turn that goes on to the next buffer after a failed read.
LoadBuffer_KeepsGoing ==
    /\ pc = "load"
    /\ Len(buffer_data) < Len(Unwrap(raw).buffers)
    /\ \E ok \in BOOLEAN :
         /\ log' = Append(log, Event("read_buffer", Len(buffer_data), ok))
         /\ buffer_data' =
               Append(buffer_data,
                      [len |-> IF ok THEN Unwrap(raw).buffers[Len(buffer_data) + 1].byte_length
                               ELSE U32(0, 0)])
    /\ UNCHANGED <<pc, result, overflow_checks, input, raw, image_data, errs, warns, lookup, iter, visit, aligned, wire>>

\* One turn of the first loop of Root::load: read_buffer_data returns exactly
\* byte_length bytes or an io::Error, which `?` returns as LoadError::Io.
LoadBuffer ==
    /\ pc = "load"
    /\ Len(buffer_data) < Len(Unwrap(raw).buffers)
    /\ \E ok \in BOOLEAN :
         /\ log' = Append(log, Event("read_buffer", Len(buffer_data), ok))
         /\ IF ok
            THEN /\ buffer_data' =
                       Append(buffer_data,
                              [len |-> Unwrap(raw).buffers[Len(buffer_data) + 1].byte_length])
                 /\ UNCHANGED <<pc, result>>
            ELSE /\ result' = Returned("Load", <<>>, None)
                 /\ pc' = "done"
                 /\ UNCHANGED buffer_data
    /\ UNCHANGED <<overflow_checks, input, raw, image_data, errs, warns, lookup, iter, visit, aligned, wire>>

\* One turn of the second loop of Root::load.  An image with a buffer view is
\* not read; otherwise `image.uri.as_ref().unwrap()` panics without a uri, and
\* read_image_data returns the pixels or an ImageError.
LoadImage ==
    /\ pc = "load"
    /\ Len(buffer_data) = Len(Unwrap(raw).buffers)
    /\ Len(image_data) < Len(Unwrap(raw).images)
    /\ LET image == Unwrap(raw).images[Len(image_data) + 1]
       IN  IF IsSome(image.buffer_view)
           THEN /\ image_data' =
                      Append(image_data, [from |-> "FromBufferView", index |-> Unwrap(image.buffer_view)])
                /\ UNCHANGED <<pc, result, log>>
           ELSE IF IsNone(image.uri)
           THEN /\ pc' = "load_panicked"
                /\ UNCHANGED <<image_data, result, log>>
           ELSE \E ok \in BOOLEAN :
                  /\ log' = Append(log, Event("read_image", Len(image_data), ok))
                  /\ IF ok
                     THEN /\ image_data' = Append(image_data, [from |-> "Owned", index |-> 0])
                          /\ UNCHANGED <<pc, result>>
                     ELSE /\ result' = Returned("Load", <<>>, None)
                          /\ pc' = "done"
                          /\ UNCHANGED image_data
    /\ UNCHANGED <<overflow_checks, input, raw, buffer_data, errs, warns, lookup, iter, visit, aligned, wire>>

\* The end of Root::load: `Ok(Self { .. })`.
LoadFinish ==
    /\ pc = "load"
    /\ Len(buffer_data) = Len(Unwrap(raw).buffers)
    /\ Len(image_data) = Len(Unwrap(raw).images)
    /\ pc' = "validate"
    /\ UNCHANGED <<overflow_checks, input, raw, buffer_data, image_data, log, errs, warns,
                   result, lookup, iter, visit, aligned, wire>>

\* A faulty pass that repairs a default scene that does not resolve.
Validate_Repairs ==
    /\ pc = "validate"
    /\ LET r == RootValidate(Unwrap(raw), overflow_checks)
       IN  /\ errs' = errs \o r.errs
           /\ warns' = warns \o r.warns
           /\ pc' = IF r.panicked THEN "validate_panicked" ELSE "validated"
           /\ log' = Append(log, Event("validate", 0, ~r.panicked))
    /\ raw' = IF TryGet(Unwrap(raw).scenes, Unwrap(raw).default_scene).ok THEN raw
              ELSE Some([Unwrap(raw) EXCEPT !.default_scene = 0])
    /\ UNCHANGED <<overflow_checks, input, buffer_data, image_data, result, lookup, iter, visit, aligned, wire>>

\* `root.validate(&root, warn_fn, err_fn)` in import: err_fn pushes to `errs`,
\* warn_fn prints.
Validate ==
    /\ pc = "validate"
    /\ LET r == RootValidate(Unwrap(raw), overflow_checks)
       IN  /\ errs' = errs \o r.errs
           /\ warns' = warns \o r.warns
           /\ pc' = IF r.panicked THEN "validate_panicked" ELSE "validated"
           /\ log' = Append(log, Event("validate", 0, ~r.panicked))
    /\ UNCHANGED <<overflow_checks, input, raw, buffer_data, image_data, result, lookup, iter, visit, aligned, wire>>

\* The end of import: `if errs.is_empty() { Ok(root) } else { Err(Validation(errs)) }`.
ImportReturn ==
    /\ pc = "validated"
    /\ result' =
          IF errs = <<>>
          THEN Returned("Ok", <<>>,
                        Some([raw |-> Unwrap(raw), buffer_data |-> buffer_data,
                              image_data |-> image_data]))
          ELSE Returned("Validation", errs, None)
    /\ pc' = "done"
    /\ UNCHANGED <<overflow_checks, input, raw, buffer_data, image_data, log, errs, warns,
                   lookup, iter, visit, aligned, wire>>

Next == ImportRead \/ LoadBuffer \/ LoadImage \/ LoadFinish \/ Validate \/ ImportReturn

Spec == Init /\ [][Next]_vars

----------------------------------------------------------------------------
(* A consumer of a loaded Root that resolves references with Root::get and *)
(* Root::try_get.                                                          *)

CollectionKinds ==
    {"accessors", "animations", "buffers", "buffer_views", "cameras", "images", "materials",
     "meshes", "nodes", "samplers", "scenes", "skins", "textures"}

\* The consumer holds a Root that Root::load returned for some document.
InitResolve ==
    /\ \E n \in 0..MaxFill, kind \in {"none", "cameras", "scenes"} :
          \E d \in VariedDocs(n, kind) :
             /\ input = [kind |-> "json", doc |-> Some(d), scene |-> Some(d.default_scene)]
             /\ raw = Some(d)
             /\ buffer_data = [i \in 1..Len(d.buffers) |-> [len |-> d.buffers[i].byte_length]]
             /\ image_data = [i \in 1..Len(d.images) |-> [from |-> "Owned", index |-> 0]]
    /\ overflow_checks \in BOOLEAN
    /\ pc = "use"
    /\ log = <<>>
    /\ errs = <<>>
    /\ warns = <<>>
    /\ result = None
    /\ lookup = NoLookup
    /\ iter = NoIter
    /\ visit = NoVisit
    /\ aligned = NoAligned
    /\ wire = NoWire

\* A call `root.try_get(&index)` on the collection `kind`.
CallTryGet ==
    /\ pc = "use"
    /\ \E kind \in CollectionKinds, index \in 0..(MaxIdx + MaxFill) :
         LET r == TryGet(Unwrap(raw)[kind], index)
         IN  lookup' = [op |-> "try_get", kind |-> kind, index |-> index, ok |-> r.ok,
                        panicked |-> FALSE, value |-> r.value]
    /\ UNCHANGED <<overflow_checks, input, pc, raw, buffer_data, image_data, log, errs, warns,
                   result, iter, visit, aligned, wire>>

\* A call `root.get(&index)` on the collection `kind`; a panic ends the consumer.
CallGet ==
    /\ pc = "use"
    /\ \E kind \in CollectionKinds, index \in 0..(MaxIdx + MaxFill) :
         LET r == Get(Unwrap(raw)[kind], index)
         IN  /\ lookup' = [op |-> "get", kind |-> kind, index |-> index, ok |-> ~r.panicked,
                           panicked |-> r.panicked, value |-> r.value]
             /\ pc' = IF r.panicked THEN "use_panicked" ELSE pc
    /\ UNCHANGED <<overflow_checks, input, raw, buffer_data, image_data, log, errs, warns,
                   result, iter, visit, aligned, wire>>

NextResolve == CallTryGet \/ CallGet

SpecResolve == InitResolve /\ [][NextResolve]_vars

----------------------------------------------------------------------------
(* Vocabulary of the properties. *)

Doc == Unwrap(raw)

Tag == IF IsSome(result) THEN Unwrap(result).tag ELSE "none"

\* The call of Root::validate has returned.
ValidateReturned == pc = "validated" \/ (pc = "done" /\ Tag \in {"Ok", "Validation"})

\* The call of Root::validate has ended, by returning or by panicking.
ValidateEnded == ValidateReturned \/ pc = "validate_panicked"

Count(diags, d) == Cardinality({i \in 1..Len(diags) : diags[i] = d})

CountDescribed(diags, description) ==
    Cardinality({i \in 1..Len(diags) : diags[i].description = description})

SameBag(a, b) ==
    /\ Len(a) = Len(b)
    /\ \A i \in 1..Len(a) : Count(a, a[i]) = Count(b, a[i])

Resolves(index, collection) == TryGet(collection, index).ok

OptionResolves(field, collection) == IsNone(field) \/ Resolves(Unwrap(field), collection)

EachResolves(list, collection) == \A i \in 1..Len(list) : Resolves(list[i], collection)

Entries(collection) == {collection[i] : i \in 1..Len(collection)}

\* Every index the document stores in a node, scene, skin, texture, image,
\* buffer view or animation, and its default scene, is in range.
AllIndicesResolve(doc) ==
    /\ \A node \in Entries(doc.nodes) :
          /\ OptionResolves(node.camera, doc.cameras)
          /\ OptionResolves(node.mesh, doc.meshes)
          /\ OptionResolves(node.skin, doc.skins)
          /\ EachResolves(node.children, doc.nodes)
    /\ \A scene \in Entries(doc.scenes) : EachResolves(scene.nodes, doc.nodes)
    /\ \A skin \in Entries(doc.skins) :
          /\ OptionResolves(skin.inverse_bind_matrices, doc.accessors)
          /\ EachResolves(skin.joints, doc.nodes)
          /\ OptionResolves(skin.skeleton, doc.nodes)
    /\ \A texture \in Entries(doc.textures) :
          /\ Resolves(texture.sampler, doc.samplers)
          /\ Resolves(texture.source, doc.images)
    /\ \A image \in Entries(doc.images) : OptionResolves(image.buffer_view, doc.buffer_views)
    /\ \A view \in Entries(doc.buffer_views) : Resolves(view.buffer, doc.buffers)
    /\ \A animation \in Entries(doc.animations) :
          /\ \A sampler \in Entries(animation.samplers) :
                Resolves(sampler.input, doc.accessors) /\ Resolves(sampler.output, doc.accessors)
          /\ \A channel \in Entries(animation.channels) : Resolves(channel.target.node, doc.nodes)
    /\ Resolves(doc.default_scene, doc.scenes)

----------------------------------------------------------------------------
(* C1 *)

\* C1: once Root::validate has returned without emitting an error, every
\* index stored in the document is less than the length of the collection it
\* refers to.
C1_ValidatedIndicesResolve ==
    (ValidateReturned /\ errs = <<>>) => AllIndicesResolve(Doc)

----------------------------------------------------------------------------
(* C2 *)

\* C2: try_get never panics and returns Ok(element i) exactly when i is less
\* than the collection's length and Err(()) otherwise; get returns the element
\* try_get returns when that is Ok and panics exactly when it is Err.
C2_GetAndTryGet ==
    lookup.op # "none" =>
        LET collection == Doc[lookup.kind]
            inside == lookup.index < Len(collection)
        IN  /\ lookup.op = "try_get" =>
                  /\ ~lookup.panicked
                  /\ pc = "use"
                  /\ lookup.ok <=> inside
                  /\ lookup.value = IF inside THEN Some(collection[lookup.index + 1]) ELSE None
            /\ lookup.op = "get" =>
                  /\ lookup.panicked <=> ~inside
                  /\ lookup.panicked <=> pc = "use_panicked"
                  /\ lookup.panicked <=> ~TryGet(collection, lookup.index).ok
                  /\ ~lookup.panicked =>
                        /\ lookup.value = Some(collection[lookup.index + 1])
                        /\ lookup.value = TryGet(collection, lookup.index).value

\* get was called with the index one past the end of a non-empty collection and panicked.
C2_Witness ==
    /\ lookup.op = "get"
    /\ lookup.panicked
    /\ lookup.index = Len(Doc[lookup.kind])
    /\ lookup.index > 0

----------------------------------------------------------------------------
(* C3 *)

\* C3: Root::validate never panics, whatever the document holds.
C3_ValidateNeverPanics == pc # "validate_panicked"

----------------------------------------------------------------------------
(* C4 *)

\* the prefix Root::validate gives the diagnostics of each collection
PrefixOf(kind) ==
    CASE kind = "buffer_views" -> "bufferViews"
      [] kind = "meshes" -> "mesh"
      [] kind = "nodes" -> "node"
      [] OTHER -> kind

\* The errors the checks of the entities i - 1, i, .. of one collection emit,
\* each entity checked on its own.
RECURSIVE IsolatedErrs(_, _, _, _)
IsolatedErrs(doc, kind, checks, i) ==
    IF i > Len(doc[kind]) THEN <<>>
    ELSE Prefixed(EntityReport(kind, doc, doc[kind][i], checks).errs, PrefixOf(kind), i - 1)
         \o IsolatedErrs(doc, kind, checks, i + 1)

AllIsolatedErrs(doc, checks) ==
    IsolatedErrs(doc, "accessors", checks, 1) \o IsolatedErrs(doc, "animations", checks, 1)
    \o IsolatedErrs(doc, "buffers", checks, 1) \o IsolatedErrs(doc, "buffer_views", checks, 1)
    \o IsolatedErrs(doc, "cameras", checks, 1) \o IsolatedErrs(doc, "images", checks, 1)
    \o IsolatedErrs(doc, "materials", checks, 1) \o IsolatedErrs(doc, "meshes", checks, 1)
    \o IsolatedErrs(doc, "nodes", checks, 1) \o IsolatedErrs(doc, "scenes", checks, 1)
    \o IsolatedErrs(doc, "skins", checks, 1) \o IsolatedErrs(doc, "textures", checks, 1)
    \o DefaultSceneReport(doc).errs

\* C4: when Root::validate has ended, the errors it emitted are, as a
\* multiset, the errors of every entity's own check and of the default-scene
\* check: no check was skipped.
C4_Exhaustive ==
    ValidateEnded => SameBag(errs, AllIsolatedErrs(Doc, overflow_checks))

----------------------------------------------------------------------------
(* C5 *)

\* C5: when import has run validation and ended, it returned Ok(root) if
\* validation emitted no error and Err(Validation(errs)), with the emitted
\* errors in order, otherwise.
C5_ImportOutcome ==
    (pc = "validate_panicked" \/ (pc = "done" /\ Tag \in {"Ok", "Validation"})) =>
        /\ IsSome(result)
        /\ errs = <<>> <=> Tag = "Ok"
        /\ Tag = "Ok" => IsSome(Unwrap(result).root)
        /\ errs # <<>> => (Tag = "Validation" /\ Unwrap(result).errs = errs)

----------------------------------------------------------------------------
(* C6 *)

\* the place of each step in import
Rank(op) ==
    CASE op = "read_gltf" -> 0
      [] op = "parse" -> 1
      [] op = "read_buffer" -> 2
      [] op = "read_image" -> 3
      [] op = "validate" -> 4

Before(i, op) == {j \in 1..(i - 1) : log[j].op = op}

----------------------------------------------------------------------------
(* C7, C8 *)

ViewSource(i, field) == "bufferViews[" \o ToString(i - 1) \o "]." \o field

\* C7: when Root::validate has returned, each buffer view has exactly one
\* "Index out of range" error and no "Oversized buffer view" error if its
\* buffer does not resolve, exactly one "Oversized buffer view" error with
\* source {byte_offset, byte_length} if the buffer resolves and the sum of
\* byte_offset and byte_length exceeds the buffer's length, and none otherwise.
C7_BufferViewDiagnostics ==
    ValidateReturned =>
        \A i \in 1..Len(Doc.buffer_views) :
           LET view == Doc.buffer_views[i]
               unresolved == Count(errs, Diag(ViewSource(i, "buffer"), "Index out of range"))
               oversized ==
                   Count(errs, Diag(ViewSource(i, "{byte_offset, byte_length}"),
                                    "Oversized buffer view"))
           IN  IF ~Resolves(view.buffer, Doc.buffers)
               THEN unresolved = 1 /\ oversized = 0
               ELSE IF ExactSumExceeds(view.byte_offset, view.byte_length,
                                       Doc.buffers[view.buffer + 1].byte_length)
               THEN unresolved = 0 /\ oversized = 1
               ELSE unresolved = 0 /\ oversized = 0

\* C8: when Root::validate has returned without an error, the integer sum of
\* byte_offset and byte_length of every buffer view is at most the length of
\* the buffer the view refers to.
C8_Containment ==
    (ValidateReturned /\ errs = <<>>) =>
        \A view \in Entries(Doc.buffer_views) :
           /\ Resolves(view.buffer, Doc.buffers)
           /\ ~ExactSumExceeds(view.byte_offset, view.byte_length,
                               Doc.buffers[view.buffer + 1].byte_length)

----------------------------------------------------------------------------
(* C9 *)

NodeSource(i, field) == "node[" \o ToString(i - 1) \o "]." \o field

OutOfRange(source) == Count(errs, Diag(source, "Index out of range"))

\* C9: when Root::validate has returned, each node has exactly one "Index
\* out of range" error for each of its camera, mesh and skin that is present
\* and does not resolve and for each entry of its children that does not
\* resolve, and none for the others, whether or not it has a camera.
C9_NodeDiagnostics ==
    ValidateReturned =>
        \A i \in 1..Len(Doc.nodes) :
           LET node == Doc.nodes[i]
               Expected(resolves) == IF resolves THEN 0 ELSE 1
           IN  /\ OutOfRange(NodeSource(i, "camera"))
                     = Expected(OptionResolves(node.camera, Doc.cameras))
               /\ OutOfRange(NodeSource(i, "mesh"))
                     = Expected(OptionResolves(node.mesh, Doc.meshes))
               /\ OutOfRange(NodeSource(i, "skin"))
                     = Expected(OptionResolves(node.skin, Doc.skins))
               /\ \A j \in 1..Len(node.children) :
                     OutOfRange(NodeSource(i, "children[" \o ToString(j - 1) \o "]"))
                        = Expected(Resolves(node.children[j], Doc.nodes))

----------------------------------------------------------------------------
(* C10 *)

OtherKind(ty) == IF ty = "orthographic" THEN "perspective" ELSE "orthographic"

CameraSource(i, field) == "cameras[" \o ToString(i - 1) \o "]." \o field

\* the cameras without the block of their type, and those with the other block
Lacking(doc) == {i \in 1..Len(doc.cameras) : IsNone(doc.cameras[i][doc.cameras[i].ty])}

Overfull(doc) ==
    {i \in 1..Len(doc.cameras) : IsSome(doc.cameras[i][OtherKind(doc.cameras[i].ty)])}

\* C10: the check of a camera of type K emits the error "Missing data" with
\* source K exactly when the K block is absent, the warning "Redundant data"
\* with source O, the other kind, exactly when the O block is present, and
\* nothing else; and when Root::validate has returned, these are, once per
\* camera, its "Missing data" errors and its warnings, and no error is
\* "Redundant data".
C10_CameraDiagnostics ==
    ValidateReturned =>
        /\ \A i \in 1..Len(Doc.cameras) :
              LET camera == Doc.cameras[i]
                  K == camera.ty
                  O == OtherKind(K)
                  missing == Diag(K, "Missing data")
                  redundant == Diag(O, "Redundant data")
                  report == ValidateCamera(Doc, camera)
              IN  /\ ~report.panicked
                  /\ report.errs = IF IsNone(camera[K]) THEN <<missing>> ELSE <<>>
                  /\ report.warns = IF IsSome(camera[O]) THEN <<redundant>> ELSE <<>>
                  /\ Count(errs, Diag(CameraSource(i, K), "Missing data"))
                        = IF i \in Lacking(Doc) THEN 1 ELSE 0
                  /\ Count(warns, Diag(CameraSource(i, O), "Redundant data"))
                        = IF i \in Overfull(Doc) THEN 1 ELSE 0
        /\ CountDescribed(errs, "Missing data") = Cardinality(Lacking(Doc))
        /\ CountDescribed(errs, "Redundant data") = 0
        /\ Len(warns) = Cardinality(Overfull(Doc))

\* Root::validate has returned for a perspective camera without a perspective
\* block and with an orthographic block: one error, one warning.
C10_Witness ==
    /\ ValidateReturned
    /\ \E i \in 1..Len(Doc.cameras) :
          /\ Doc.cameras[i].ty = "perspective"
          /\ IsNone(Doc.cameras[i].perspective)
          /\ IsSome(Doc.cameras[i].orthographic)
          /\ errs = <<Diag(CameraSource(i, "perspective"), "Missing data")>>
          /\ warns = <<Diag(CameraSource(i, "orthographic"), "Redundant data")>>

----------------------------------------------------------------------------
(* C11 *)

\* the default-scene index of the file import read: its `scene` member, or 0
\* when it has none
DefaultSceneOf(file) == IF IsNone(file.scene) THEN 0 ELSE Unwrap(file.scene)

----------------------------------------------------------------------------
(* C12 *)

Source(prefix, i, field) == prefix \o "[" \o ToString(i - 1) \o "]." \o field

Entry(field, j) == field \o "[" \o ToString(j - 1) \o "]"

\* 0 for a reference that resolves or is absent, 1 for one that does not resolve
Dangling(resolves) == IF resolves THEN 0 ELSE 1

DanglingEntries(list, collection) ==
    Cardinality({j \in 1..Len(list) : ~Resolves(list[j], collection)})

AllOutOfRange(diags) == \A k \in 1..Len(diags) : diags[k].description = "Index out of range"

\* C12: when Root::validate has returned, each scene, skin, texture and image
\* has exactly one "Index out of range" error for each reference it stores
\* that does not resolve, none for a reference that resolves or is absent,
\* and its own check emits nothing else.
C12_ReferenceDiagnostics ==
    ValidateReturned =>
        /\ \A i \in 1..Len(Doc.scenes) :
              LET scene == Doc.scenes[i]
                  report == ValidateScene(Doc, scene)
              IN  /\ \A j \in 1..Len(scene.nodes) :
                        OutOfRange(Source("scenes", i, Entry("node", j)))
                           = Dangling(Resolves(scene.nodes[j], Doc.nodes))
                  /\ Len(report.errs) = DanglingEntries(scene.nodes, Doc.nodes)
                  /\ AllOutOfRange(report.errs) /\ report.warns = <<>>
        /\ \A i \in 1..Len(Doc.skins) :
              LET skin == Doc.skins[i]
                  report == ValidateSkin(Doc, skin)
              IN  /\ OutOfRange(Source("skins", i, "accessor"))
                        = Dangling(OptionResolves(skin.inverse_bind_matrices, Doc.accessors))
                  /\ \A j \in 1..Len(skin.joints) :
                        OutOfRange(Source("skins", i, Entry("joints", j)))
                           = Dangling(Resolves(skin.joints[j], Doc.nodes))
                  /\ OutOfRange(Source("skins", i, "skeleton"))
                        = Dangling(OptionResolves(skin.skeleton, Doc.nodes))
                  /\ Len(report.errs)
                        = Dangling(OptionResolves(skin.inverse_bind_matrices, Doc.accessors))
                          + DanglingEntries(skin.joints, Doc.nodes)
                          + Dangling(OptionResolves(skin.skeleton, Doc.nodes))
                  /\ AllOutOfRange(report.errs) /\ report.warns = <<>>
        /\ \A i \in 1..Len(Doc.textures) :
              LET texture == Doc.textures[i]
                  report == ValidateTexture(Doc, texture)
              IN  /\ OutOfRange(Source("textures", i, "sampler"))
                        = Dangling(Resolves(texture.sampler, Doc.samplers))
                  /\ OutOfRange(Source("textures", i, "source"))
                        = Dangling(Resolves(texture.source, Doc.images))
                  /\ Len(report.errs)
                        = Dangling(Resolves(texture.sampler, Doc.samplers))
                          + Dangling(Resolves(texture.source, Doc.images))
                  /\ AllOutOfRange(report.errs) /\ report.warns = <<>>
        /\ \A i \in 1..Len(Doc.images) :
              LET image == Doc.images[i]
                  report == ValidateImage(Doc, image)
              IN  /\ OutOfRange(Source("images", i, "bufferView"))
                        = Dangling(OptionResolves(image.buffer_view, Doc.buffer_views))
                  /\ Len(report.errs)
                        = Dangling(OptionResolves(image.buffer_view, Doc.buffer_views))
                  /\ AllOutOfRange(report.errs) /\ report.warns = <<>>

\* Root::validate has returned for a texture whose source image resolves and
\* whose sampler does not, with the one error for the sampler.
C12_Witness ==
    /\ ValidateReturned
    /\ \E i \in 1..Len(Doc.textures) :
          /\ Resolves(Doc.textures[i].source, Doc.images)
          /\ ~Resolves(Doc.textures[i].sampler, Doc.samplers)
          /\ errs = <<Diag(Source("textures", i, "sampler"), "Index out of range")>>

----------------------------------------------------------------------------
(* C13 *)

\* the (semantic, component type, shape) triples of the table
AttributeTable ==
    ({"POSITION", "NORMAL"} \X {"F32"} \X {"Vec3"})
    \cup ({"TANGENT"} \X {"F32"} \X {"Vec4"})
    \cup ({"COLOR_0"} \X {"U8", "U16", "F32"} \X {"Vec3", "Vec4"})
    \cup ({"JOINTS_0", "WEIGHTS_0"} \X {"U8", "U16"} \X {"Vec4"})
    \cup ({"TEXCOORD_0"} \X {"U8", "U16", "F32"} \X {"Vec2"})

\* C13: when Root::validate has returned, each attribute of a mesh primitive
\* whose accessor resolves has exactly one error naming its semantic if the
\* accessor's (component type, shape) pair is outside the table for the
\* semantic, and no diagnostic if the pair is inside.
C13_AttributeTable ==
    ValidateReturned =>
        \A i \in 1..Len(Doc.meshes) :
           \A j \in 1..Len(Doc.meshes[i].primitives) :
              \A k \in 1..Len(Doc.meshes[i].primitives[j].attributes) :
                 LET attribute == Doc.meshes[i].primitives[j].attributes[k]
                     semantic == attribute.semantic
                     accessor == Doc.accessors[attribute.accessor + 1]
                     source ==
                        Source("mesh", i,
                               Source("primitives", j, "attributes[" \o semantic \o "]"))
                     named == {n \in 1..Len(errs) :
                                  /\ errs[n].source = source
                                  /\ errs[n].description
                                        = "Invalid accessor for attribute " \o semantic}
                     any == {n \in 1..Len(errs) : errs[n].source = source}
                 IN  Resolves(attribute.accessor, Doc.accessors) =>
                        IF <<semantic, accessor.component_type, accessor.kind>> \in AttributeTable
                        THEN any = {}
                        ELSE Cardinality(named) = 1 /\ any = named

\* Root::validate has returned for a POSITION attribute whose accessor holds
\* triples of U16, with the one error naming POSITION.
C13_Witness ==
    /\ ValidateReturned
    /\ \E i \in 1..Len(Doc.meshes) :
          /\ Doc.meshes[i].primitives # <<>>
          /\ LET attribute == Doc.meshes[i].primitives[1].attributes[1]
             IN  /\ attribute.semantic = "POSITION"
                 /\ Resolves(attribute.accessor, Doc.accessors)
                 /\ Doc.accessors[attribute.accessor + 1].component_type = "U16"
                 /\ Doc.accessors[attribute.accessor + 1].kind = "Vec3"
                 /\ errs = <<Diag(Source("mesh", i, "primitives[0].attributes[POSITION]"),
                                  "Invalid accessor for attribute POSITION")>>

----------------------------------------------------------------------------
(* C14 *)

\* the name of each top-level collection in a document
CollectionName(kind) == IF kind = "buffer_views" THEN "bufferViews" ELSE kind

ValidatedKinds ==
    <<"accessors", "animations", "buffers", "buffer_views", "cameras", "images", "materials",
      "meshes", "nodes", "scenes", "skins", "textures">>

\* The warnings (which = "warns") or errors (which = "errs") that the checks
\* of the entities i - 1, i, .. of a collection report, each with the source
\* `<collectionName>[<number>].<source reported>`.
RECURSIVE NamedDiags(_, _, _, _, _)
NamedDiags(doc, kind, which, checks, i) ==
    IF i > Len(doc[kind]) THEN <<>>
    ELSE Prefixed(EntityReport(kind, doc, doc[kind][i], checks)[which], CollectionName(kind),
                  i - 1)
         \o NamedDiags(doc, kind, which, checks, i + 1)

RECURSIVE AllNamedDiags(_, _, _, _)
AllNamedDiags(doc, which, checks, k) ==
    IF k > Len(ValidatedKinds) THEN <<>>
    ELSE NamedDiags(doc, ValidatedKinds[k], which, checks, 1)
         \o AllNamedDiags(doc, which, checks, k + 1)

\* C14: when Root::validate has returned, the diagnostics it emitted for the
\* entities of the top-level collections are those the entities' own checks
\* report, the source of each prefixed with `<collectionName>[i].` for entity
\* number i of the collection named collectionName.
C14_SourcePrefix ==
    ValidateReturned =>
        /\ SameBag(errs, AllNamedDiags(Doc, "errs", overflow_checks, 1)
                         \o DefaultSceneReport(Doc).errs)
        /\ SameBag(warns, AllNamedDiags(Doc, "warns", overflow_checks, 1))

----------------------------------------------------------------------------
(* A caller that runs Root::validate on one loaded, unchanged Root several *)
(* times, with callbacks that push to `warns` and `errs`.                  *)

MaxRuns == 2

Runs == Cardinality({i \in 1..Len(log) : log[i].op = "validate"})

\* The caller holds a Root that Root::load returned for some document.
InitRevalidate ==
    /\ \E n \in 0..MaxFill, kind \in VariedKinds :
          \E d \in VariedDocs(n, kind) :
             /\ input = [kind |-> "json", doc |-> Some(d), scene |-> Some(d.default_scene)]
             /\ raw = Some(d)
             /\ buffer_data = [i \in 1..Len(d.buffers) |-> [len |-> d.buffers[i].byte_length]]
             /\ image_data = [i \in 1..Len(d.images) |-> [from |-> "Owned", index |-> 0]]
    /\ overflow_checks \in BOOLEAN
    /\ pc = "validate"
    /\ log = <<>>
    /\ errs = <<>>
    /\ warns = <<>>
    /\ result = None
    /\ lookup = NoLookup
    /\ iter = NoIter
    /\ visit = NoVisit
    /\ aligned = NoAligned
    /\ wire = NoWire

\* A faulty later run that reports no diagnostic it has reported before.
Revalidate_Remembers ==
    /\ pc = "validated"
    /\ Runs < MaxRuns
    /\ log' = Append(log, Event("validate", 0, TRUE))
    /\ UNCHANGED <<overflow_checks, input, pc, raw, buffer_data, image_data, errs, warns,
                   result, lookup, iter, visit, aligned, wire>>

\* A later call `root.validate(&root, warn_fn, err_fn)` on the same Root.
Revalidate ==
    /\ pc = "validated"
    /\ Runs < MaxRuns
    /\ LET r == RootValidate(Unwrap(raw), overflow_checks)
       IN  /\ errs' = errs \o r.errs
           /\ warns' = warns \o r.warns
           /\ pc' = IF r.panicked THEN "validate_panicked" ELSE "validated"
           /\ log' = Append(log, Event("validate", 0, ~r.panicked))
    /\ UNCHANGED <<overflow_checks, input, raw, buffer_data, image_data, result, lookup, iter, visit, aligned, wire>>

NextRevalidate == Validate \/ Revalidate

SpecRevalidate == InitRevalidate /\ [][NextRevalidate]_vars

----------------------------------------------------------------------------
(* C15 *)

\* the diagnostics delivered by run number r of k runs that delivered `diags`
RunOf(diags, r, k) == SubSeq(diags, (r - 1) * (Len(diags) \div k) + 1, r * (Len(diags) \div k))

\* `diags` is k times the same sequence
Repeats(diags, k) ==
    /\ Len(diags) = k * (Len(diags) \div k)
    /\ \A r \in 1..k : RunOf(diags, r, k) = RunOf(diags, 1, k)

----------------------------------------------------------------------------
(* C16 *)

\* C16: a call of Root::validate, whether it returns or panics, leaves the
\* document (every collection, every field and the default-scene index) and
\* the pre-loaded buffer and image data as they were; the diagnostics it
\* delivers are its only effect.
C16_Frame ==
    [][pc = "validate" =>
          /\ raw' = raw
          /\ buffer_data' = buffer_data
          /\ image_data' = image_data
          /\ input' = input /\ result' = result /\ lookup' = lookup]_vars

\* Root::validate has returned with an error for a document whose default
\* scene does not resolve, and the document is the one that was parsed.
C16_Witness ==
    /\ pc = "validated"
    /\ errs = <<Diag("scene", "Index out of range")>>
    /\ Doc.scenes # <<>>
    /\ Doc = Deserialize(input)

----------------------------------------------------------------------------
(* Typed reads: Accessor::iter of accessor.rs and tree/accessor.rs, and     *)
(* the Iter they return.                                                     *)

\* An accessor holds at most MaxCount elements.
MaxCount == 3
\* An exhausted Iter is asked for another element at most MaxNones times.
MaxNones == 2

\* size_of::<T>() of the target types a consumer reads as: u16, f32, [f32; 3].
TargetSizes == {2, 4, 12}

\* Accessor::component_size: the size of one component times the number of
\* components of the shape.
component_size(accessor) ==
    (CASE accessor.component_type = "U8" -> 1
       [] accessor.component_type = "U16" -> 2
       [] accessor.component_type = "U32" -> 4
       [] accessor.component_type = "F32" -> 4)
    * (CASE accessor.kind = "Scalar" -> 1
         [] accessor.kind = "Vec2" -> 2
         [] accessor.kind = "Vec3" -> 3
         [] accessor.kind = "Vec4" -> 4)

\* BufferView::data: `&buffer_data[begin..end]` with begin = byte_offset and
\* end = begin + byte_length as usize; slicing panics when end exceeds the
\* length of the loaded data.
ViewDataPanics(view, data) ==
    ExactSumExceeds(view.byte_offset, view.byte_length, data.len)

\* The part both variants of Accessor::iter share: resolve the buffer view
\* with Root::get, slice its data, offset the pointer by accessor.byte_offset.
MakeIter(doc, data, call, accessor) ==
    LET found == Get(doc.buffer_views, accessor.buffer_view)
    IN  IF found.panicked
        THEN [call EXCEPT !.resolved = TRUE]
        ELSE LET view == Unwrap(found.value)
             IN  IF ViewDataPanics(view, data[view.buffer + 1])
                 THEN [call EXCEPT !.resolved = TRUE]
                 ELSE [call EXCEPT !.resolved = TRUE, !.created = TRUE,
                                   !.count = accessor.count,
                                   !.ptr = view.byte_offset.lo + accessor.byte_offset,
                                   !.stride = view.byte_stride]

\* Accessor::iter::<T> of accessor.rs: asserts the sizes equal, then makes the Iter.
UncheckedIter(doc, data, call, accessor) ==
    IF component_size(accessor) # call.size
    THEN [outcome |-> "panicked", iter |-> call]
    ELSE LET made == MakeIter(doc, data, call, accessor)
         IN  [outcome |-> IF made.created THEN "iter" ELSE "panicked", iter |-> made]

\* Accessor::iter::<T> of tree/accessor.rs: Err(()) when the sizes differ,
\* else Ok of the Iter.
CheckedIter(doc, data, call, accessor) ==
    IF component_size(accessor) # call.size
    THEN [outcome |-> "err", iter |-> call]
    ELSE LET made == MakeIter(doc, data, call, accessor)
         IN  [outcome |-> IF made.created THEN "ok" ELSE "panicked", iter |-> made]

ReadBuffer == [byte_length |-> U32(0, 4 + MaxCount * 12), uri |-> "buffer.bin"]

ReadViews ==
    [buffer : {0},
     byte_length : {U32(0, 4), U32(0, 12), U32(0, MaxCount * 12)},
     byte_offset : {U32(0, 0), U32(0, 4), U32(Half - 1, Half - 4)},
     byte_stride : {0, 16}]

ReadAccessors ==
    [buffer_view : {0}, byte_offset : {0, 4}, component_type : {"U16", "F32"},
     count : 0..MaxCount, kind : {"Scalar", "Vec3"}]

\* The consumer holds a Root for a document that Root::validate, in this
\* build, went through without a panic and without an error.
InitRead ==
    /\ overflow_checks \in BOOLEAN
    /\ \E a \in ReadAccessors, v \in ReadViews :
          LET d == [PlainDoc(1) EXCEPT !.accessors = <<a>>, !.buffers = <<ReadBuffer>>,
                                      !.buffer_views = <<v>>]
              r == RootValidate(d, overflow_checks)
          IN  /\ ~r.panicked
              /\ r.errs = <<>>
              /\ input = [kind |-> "json", doc |-> Some(d), scene |-> Some(d.default_scene)]
              /\ raw = Some(d)
              /\ buffer_data = [i \in 1..Len(d.buffers) |-> [len |-> d.buffers[i].byte_length]]
              /\ image_data = [i \in 1..Len(d.images) |-> [from |-> "Owned", index |-> 0]]
    /\ pc = "access"
    /\ log = <<>>
    /\ errs = <<>>
    /\ warns = <<>>
    /\ result = None
    /\ lookup = NoLookup
    /\ iter = NoIter
    /\ visit = NoVisit
    /\ aligned = NoAligned
    /\ wire = NoWire

\* `accessor.iter::<T>()` on the unchecked wrapper; a panic ends the consumer.
AccessorIter ==
    /\ pc = "access"
    /\ \E index \in 0..(Len(Unwrap(raw).accessors) - 1), size \in TargetSizes :
         LET call == [NoIter EXCEPT !.variant = "unchecked", !.size = size, !.accessor = index]
             r == UncheckedIter(Unwrap(raw), buffer_data, call, Unwrap(raw).accessors[index + 1])
         IN  /\ iter' = r.iter
             /\ pc' = IF r.outcome = "iter" THEN "iterating" ELSE "access_panicked"
    /\ UNCHANGED <<overflow_checks, input, raw, buffer_data, image_data, log, errs, warns,
                   result, lookup, visit, aligned, wire>>

\* `accessor.iter::<T>()` on the tree wrapper.
TreeAccessorIter ==
    /\ pc = "access"
    /\ \E index \in 0..(Len(Unwrap(raw).accessors) - 1), size \in TargetSizes :
         LET call == [NoIter EXCEPT !.variant = "checked", !.size = size, !.accessor = index]
             r == CheckedIter(Unwrap(raw), buffer_data, call, Unwrap(raw).accessors[index + 1])
         IN  /\ iter' = r.iter
             /\ pc' = CASE r.outcome = "ok" -> "iterating"
                        [] r.outcome = "err" -> "refused"
                        [] OTHER -> "access_panicked"
    /\ UNCHANGED <<overflow_checks, input, raw, buffer_data, image_data, log, errs, warns,
                   result, lookup, visit, aligned, wire>>

\* A faulty advance that always assumes tight packing.
Step_IgnoresStride(it) == it.size

\* The advance of Iter::next: the stride when it is nonzero, else size_of::<T>().
Step(it) == IF it.stride > 0 THEN it.stride ELSE it.size

\* The loaded data of the buffer that the iterator's bytes come from.
DataOf(doc, data, it) ==
    data[doc.buffer_views[doc.accessors[it.accessor + 1].buffer_view + 1].buffer + 1]

\* The size_of::<T>() bytes at `ptr` are bytes of the loaded data.
InsideData(it, data) == data.len.hi > 0 \/ it.ptr + it.size <= data.len.lo

\* Iter::next returning Some: the read through `ptr`, then the advance.
Advance(it) ==
    [it EXCEPT !.reads = Append(@, it.ptr), !.count = @ - 1, !.ptr = @ + Step(it),
               !.yielded = @ + 1, !.hint = None]

\* Iter::next.  `transmute_copy(&*self.ptr)` reads without comparing `ptr`
\* with anything: outside the loaded data the read is undefined behaviour,
\* which either faults or yields whatever bytes are there.
IterNext ==
    /\ pc = "iterating"
    /\ IF iter.count > 0
       THEN \/ /\ iter' = Advance(iter)
               /\ pc' = pc
            \/ /\ ~InsideData(iter, DataOf(Unwrap(raw), buffer_data, iter))
               /\ iter' = [iter EXCEPT !.reads = Append(@, iter.ptr), !.hint = None]
               /\ pc' = "iter_crashed"
       ELSE /\ iter.nones < MaxNones
            /\ iter' = [iter EXCEPT !.nones = @ + 1, !.hint = None]
            /\ pc' = pc
    /\ UNCHANGED <<overflow_checks, input, raw, buffer_data, image_data, log, errs, warns,
                   result, lookup, visit, aligned, wire>>

\* Iter::size_hint: `(self.count, Some(self.count))`.
IterSizeHint ==
    /\ pc = "iterating"
    /\ iter.hint = None
    /\ iter' = [iter EXCEPT !.hint = Some(<<iter.count, Some(iter.count)>>)]
    /\ UNCHANGED <<overflow_checks, input, pc, raw, buffer_data, image_data, log, errs, warns,
                   result, lookup, visit, aligned, wire>>

NextRead == AccessorIter \/ TreeAccessorIter \/ IterNext \/ IterSizeHint

SpecRead == InitRead /\ [][NextRead]_vars

----------------------------------------------------------------------------
(* Properties of the typed reads. *)

\* The accessor a typed read was asked for, and its buffer view.
ReadAccessor == Unwrap(raw).accessors[iter.accessor + 1]
ReadView == Unwrap(raw).buffer_views[ReadAccessor.buffer_view + 1]
SizeMismatch == component_size(ReadAccessor) # iter.size

\* C17: for every accessor and target type T whose size differs from the
\* accessor's per-element size, the checked read returns Err(()) without
\* resolving the buffer view or reading a byte, and the unchecked read panics
\* before an iterator exists; with equal sizes the checked read returns Ok.
C17_SizeCheck ==
    /\ (iter.variant = "checked" /\ SizeMismatch) =>
          pc = "refused" /\ ~iter.resolved /\ ~iter.created /\ iter.reads = <<>>
    /\ (iter.variant = "unchecked" /\ SizeMismatch) =>
          pc = "access_panicked" /\ ~iter.created /\ iter.reads = <<>>
    /\ (iter.variant = "checked" /\ ~SizeMismatch) =>
          pc \in {"iterating", "iter_crashed"} /\ iter.created

\* C18: a typed sequence made for an accessor with count n yields exactly n
\* elements and then None on every later call, and after k <= n calls of
\* next, size_hint reports exactly (n - k, Some(n - k)).
C18_ExactLength ==
    iter.created =>
       /\ pc = "iterating"
       /\ iter.yielded <= ReadAccessor.count
       /\ iter.nones > 0 => iter.yielded = ReadAccessor.count
       /\ IsSome(iter.hint) =>
             Unwrap(iter.hint) = <<ReadAccessor.count - iter.yielded,
                                   Some(ReadAccessor.count - iter.yielded)>>

\* The byte offset, within the parent buffer's data, that the k-th element
\* (k from 0) is to be read from.
ElementOffset(k) ==
    ReadView.byte_offset.hi * Half + ReadView.byte_offset.lo + ReadAccessor.byte_offset
    + k * (IF ReadView.byte_stride # 0 THEN ReadView.byte_stride ELSE iter.size)

\* C19: the k-th element (k = 0 .. count-1) of a typed sequence is read from
\* byte offset buffer_view.byte_offset + accessor.byte_offset + k * step of the
\* parent buffer's data, step being the view's stride when it is nonzero and
\* size_of(T) when it is zero.
C19_ReadOffsets ==
    iter.created =>
       /\ \A k \in 1..Len(iter.reads) : iter.reads[k] = ElementOffset(k - 1)
       /\ iter.nones > 0 => Len(iter.reads) = ReadAccessor.count

\* Count 3, element size 12, stride 0, start offset 4: offsets 4, 16, 28, then None.
C19_Witness ==
    /\ pc = "iterating"
    /\ ReadAccessor.count = 3 /\ iter.size = 12 /\ ReadView.byte_stride = 0
    /\ ElementOffset(0) = 4
    /\ iter.reads = <<4, 16, 28>>
    /\ iter.nones > 0

\* C20: a typed sequence never reads a byte at or beyond
\* buffer_view.byte_offset + buffer_view.byte_length of the parent buffer: in
\* a document that validated without errors, every element read lies
\* entirely inside the accessor's buffer view.
C20_InsideView ==
    iter.created =>
       \A k \in 1..Len(iter.reads) :
          /\ iter.reads[k] >= ReadView.byte_offset.lo
          /\ iter.reads[k] + iter.size <= ReadView.byte_offset.lo + ReadView.byte_length.lo

----------------------------------------------------------------------------
(* Typed attribute and index unions: IterAttributes::next and               *)
(* Primitive::indices of mesh.rs and tree/mesh.rs.                          *)

\* The arm of the `match (semantic, accessor.ty(), accessor.kind())` taken:
\* the variant it builds and size_of of the element type of its Iter.
\* "unreachable" is the `_ => unreachable!()` arm.
AttributeArm(semantic, ty, kind) ==
    CASE semantic = "COLOR_0" /\ ty = "F32" /\ kind = "Vec3" -> [tag |-> "Colors::RgbF32", size |-> 12]
      [] semantic = "COLOR_0" /\ ty = "F32" /\ kind = "Vec4" -> [tag |-> "Colors::RgbaF32", size |-> 16]
      [] semantic = "COLOR_0" /\ ty = "U8" /\ kind = "Vec3" -> [tag |-> "Colors::RgbU8", size |-> 3]
      [] semantic = "COLOR_0" /\ ty = "U8" /\ kind = "Vec4" -> [tag |-> "Colors::RgbaU8", size |-> 4]
      [] semantic = "COLOR_0" /\ ty = "U16" /\ kind = "Vec3" -> [tag |-> "Colors::RgbU16", size |-> 6]
      [] semantic = "COLOR_0" /\ ty = "U16" /\ kind = "Vec4" -> [tag |-> "Colors::RgbaU16", size |-> 8]
      [] semantic = "JOINTS_0" /\ ty = "U8" /\ kind = "Vec4" -> [tag |-> "Joints::U8", size |-> 4]
      [] semantic = "JOINTS_0" /\ ty = "U16" /\ kind = "Vec4" -> [tag |-> "Joints::U16", size |-> 8]
      [] semantic = "NORMAL" /\ ty = "F32" /\ kind = "Vec3" -> [tag |-> "Normals", size |-> 12]
      [] semantic = "POSITION" /\ ty = "F32" /\ kind = "Vec3" -> [tag |-> "Positions", size |-> 12]
      [] semantic = "TANGENT" /\ ty = "F32" /\ kind = "Vec3" -> [tag |-> "Tangents", size |-> 16]
      [] semantic = "TEXCOORD_0" /\ ty = "F32" /\ kind = "Vec2" -> [tag |-> "TexCoords::F32", size |-> 8]
      [] semantic = "TEXCOORD_0" /\ ty = "U8" /\ kind = "Vec2" -> [tag |-> "TexCoords::U8", size |-> 2]
      [] semantic = "TEXCOORD_0" /\ ty = "U16" /\ kind = "Vec2" -> [tag |-> "TexCoords::U16", size |-> 4]
      [] semantic = "WEIGHTS_0" /\ ty = "U8" /\ kind = "Vec4" -> [tag |-> "Weights::U8", size |-> 4]
      [] semantic = "WEIGHTS_0" /\ ty = "U16" /\ kind = "Vec4" -> [tag |-> "Weights::U16", size |-> 8]
      [] semantic = "_EXTRA" -> [tag |-> "Extras", size |-> 0]
      [] OTHER -> [tag |-> "unreachable", size |-> 0]

\* The arm of the `match accessor.ty()` of Primitive::indices.
IndicesArm(ty) ==
    CASE ty = "U8" -> [tag |-> "Indices::U8", size |-> 1]
      [] ty = "U16" -> [tag |-> "Indices::U16", size |-> 2]
      [] ty = "U32" -> [tag |-> "Indices::U32", size |-> 4]
      [] OTHER -> [tag |-> "unreachable", size |-> 0]

\* What the closure of a `map` builds for the accessor `index`: Root::get,
\* the match, and in a typed arm `accessor.iter()` (mesh.rs) or
\* `accessor.iter().unwrap()` (tree/mesh.rs).  `arm` is the arm the match takes.
TypedUnion(doc, data, variant, index, arm) ==
    LET found == Get(doc.accessors, index)
        call == [NoIter EXCEPT !.variant = variant, !.size = arm.size, !.accessor = index]
    IN  IF found.panicked \/ arm.tag = "unreachable"
        THEN [panicked |-> TRUE, tag |-> "none", iter |-> NoIter]
        ELSE IF arm.tag = "Extras"
        THEN [panicked |-> FALSE, tag |-> arm.tag, iter |-> NoIter]
        ELSE LET r == IF variant = "unchecked"
                      THEN UncheckedIter(doc, data, call, Unwrap(found.value))
                      ELSE CheckedIter(doc, data, call, Unwrap(found.value))
             IN  IF r.outcome \in {"iter", "ok"}
                 THEN [panicked |-> FALSE, tag |-> arm.tag, iter |-> r.iter]
                 ELSE [panicked |-> TRUE, tag |-> "none", iter |-> r.iter]

AttributeSemantics == Semantics \cup {"_EXTRA"}

\* One view over the whole of one buffer, for the accessors to read from.
WholeView ==
    [buffer |-> 0, byte_length |-> ReadBuffer.byte_length, byte_offset |-> U32(0, 0),
     byte_stride |-> 0]

\* The consumer holds a Primitive with one attribute and, possibly, indices,
\* and an IterAttributes over it: the document need not have been validated.
InitAttributes ==
    /\ overflow_checks \in BOOLEAN
    /\ \E semantic \in AttributeSemantics, ty \in ComponentTypes, kind \in Kinds,
          index \in Indices, indices \in {None} \cup {Some(i) : i \in Indices} :
          LET a == [buffer_view |-> 0, byte_offset |-> 0, component_type |-> ty, count |-> 1,
                    kind |-> kind]
              primitive == [attributes |-> <<[semantic |-> semantic, accessor |-> index]>>,
                            indices |-> indices]
              d == [PlainDoc(1) EXCEPT !.accessors = <<a>>, !.buffers = <<ReadBuffer>>,
                                      !.buffer_views = <<WholeView>>,
                                      !.meshes = <<[primitives |-> <<primitive>>]>>]
          IN  /\ input = [kind |-> "json", doc |-> Some(d), scene |-> Some(d.default_scene)]
              /\ raw = Some(d)
              /\ buffer_data = [i \in 1..Len(d.buffers) |-> [len |-> d.buffers[i].byte_length]]
              /\ image_data = [i \in 1..Len(d.images) |-> [from |-> "Owned", index |-> 0]]
              /\ visit = [NoVisit EXCEPT !.of = "attributes", !.rest = primitive.attributes]
    /\ pc = "primitive"
    /\ log = <<>>
    /\ errs = <<>>
    /\ warns = <<>>
    /\ result = None
    /\ lookup = NoLookup
    /\ iter = NoIter
    /\ aligned = NoAligned
    /\ wire = NoWire

\* IterAttributes::next of mesh.rs (variant "unchecked") and of tree/mesh.rs
\* (variant "checked"); a panic ends the consumer.
IterAttributesNext ==
    /\ pc = "primitive"
    /\ visit.nones < MaxNones
    /\ \E variant \in {"unchecked", "checked"} :
         IF visit.rest = <<>>
         THEN /\ visit' = [visit EXCEPT !.nones = @ + 1]
              /\ UNCHANGED <<pc, iter>>
         ELSE LET next == Head(visit.rest)
                  a == TryGet(Unwrap(raw).accessors, next.accessor)
                  arm == IF a.ok
                         THEN AttributeArm(next.semantic, Unwrap(a.value).component_type,
                                           Unwrap(a.value).kind)
                         ELSE [tag |-> "unreachable", size |-> 0]
                  r == TypedUnion(Unwrap(raw), buffer_data, variant, next.accessor, arm)
              IN  /\ visit' = [visit EXCEPT !.rest = Tail(@),
                                            !.items = IF r.panicked THEN @ ELSE Append(@, r.tag)]
                  /\ iter' = r.iter
                  /\ pc' = IF r.panicked THEN "primitive_panicked" ELSE pc
    /\ UNCHANGED <<overflow_checks, input, raw, buffer_data, image_data, log, errs, warns,
                   result, lookup, aligned, wire>>

\* The primitive whose attributes and indices the consumer reads.
ThePrimitive == Unwrap(raw).meshes[1].primitives[1]

\* Primitive::indices of mesh.rs and tree/mesh.rs.
PrimitiveIndices ==
    /\ pc = "primitive"
    /\ visit.of = "attributes"
    /\ \E variant \in {"unchecked", "checked"} :
         IF ThePrimitive.indices = None
         THEN /\ visit' = [visit EXCEPT !.of = "indices", !.items = <<"None">>]
              /\ pc' = "indexed"
              /\ UNCHANGED iter
         ELSE LET index == Unwrap(ThePrimitive.indices)
                  a == TryGet(Unwrap(raw).accessors, index)
                  arm == IF a.ok THEN IndicesArm(Unwrap(a.value).component_type)
                         ELSE [tag |-> "unreachable", size |-> 0]
                  r == TypedUnion(Unwrap(raw), buffer_data, variant, index, arm)
              IN  /\ visit' = [visit EXCEPT !.of = "indices",
                                            !.items = IF r.panicked THEN <<>> ELSE <<r.tag>>]
                  /\ iter' = r.iter
                  /\ pc' = IF r.panicked THEN "primitive_panicked" ELSE "indexed"
    /\ UNCHANGED <<overflow_checks, input, raw, buffer_data, image_data, log, errs, warns,
                   result, lookup, aligned, wire>>

NextAttributes == IterAttributesNext \/ PrimitiveIndices

SpecAttributes == InitAttributes /\ [][NextAttributes]_vars

----------------------------------------------------------------------------
(* Properties of the typed unions. *)

\* The attribute the IterAttributes was asked for, and its accessor.
TheAttribute == ThePrimitive.attributes[1]
AttributeAccessor == TryGet(Unwrap(raw).accessors, TheAttribute.accessor)
AttributeVisited == visit.of = "attributes" /\ visit.rest = <<>> /\ AttributeAccessor.ok

\* The attribute's (semantic, component type, shape) triple is in the
\* compatibility table.
InTable ==
    /\ TheAttribute.semantic \in Semantics
    /\ ValidAttribute(TheAttribute.semantic, Unwrap(AttributeAccessor.value).component_type,
                      Unwrap(AttributeAccessor.value).kind)

\* The variants of Attribute that stand for a semantic.
VariantsOf(semantic) ==
    CASE semantic = "POSITION" -> {"Positions"}
      [] semantic = "NORMAL" -> {"Normals"}
      [] semantic = "TANGENT" -> {"Tangents"}
      [] semantic = "COLOR_0" -> {"Colors::RgbF32", "Colors::RgbaF32", "Colors::RgbU8",
                                  "Colors::RgbaU8", "Colors::RgbU16", "Colors::RgbaU16"}
      [] semantic = "JOINTS_0" -> {"Joints::U8", "Joints::U16"}
      [] semantic = "WEIGHTS_0" -> {"Weights::U8", "Weights::U16", "Weights::F32"}
      [] semantic = "TEXCOORD_0" -> {"TexCoords::F32", "TexCoords::U8", "TexCoords::U16"}

\* C21: for every (semantic, component type, shape) triple the compatibility
\* table accepts, IterAttributes::next returns the tagged variant of that
\* semantic whose element type has exactly the accessor's per-element size,
\* and does not panic, neither on the size check nor on an unmatched case.
C21_TypedAttribute ==
    (AttributeVisited /\ InTable) =>
       /\ pc # "primitive_panicked"
       /\ Len(visit.items) = 1
       /\ visit.items[1] \in VariantsOf(TheAttribute.semantic)
       /\ iter.created
       /\ iter.size = component_size(Unwrap(AttributeAccessor.value))

\* The index accessor of the primitive, once Primitive::indices was called.
IndicesAccessor == TryGet(Unwrap(raw).accessors, Unwrap(ThePrimitive.indices))
IndicesAsked == visit.of = "indices" /\ IsSome(ThePrimitive.indices) /\ IndicesAccessor.ok
ValidIndices ==
    /\ Unwrap(IndicesAccessor.value).kind = "Scalar"
    /\ Unwrap(IndicesAccessor.value).component_type \in {"U8", "U16", "U32"}

\* C22: constructing a typed attribute union for an accessor/semantic pair
\* outside the compatibility table, or an index union for an accessor that
\* is not scalar U8/U16/U32, yields an error value: it neither panics nor
\* returns a sequence.
C22_ErrorValue ==
    /\ (AttributeVisited /\ TheAttribute.semantic \in Semantics /\ ~InTable) =>
          pc # "primitive_panicked" /\ ~iter.created
    /\ (IndicesAsked /\ ~ValidIndices) =>
          pc # "primitive_panicked" /\ ~iter.created

----------------------------------------------------------------------------
(* The aligned byte buffer of buffer.rs (AlignedBufferData) and of          *)
(* tree/buffer.rs (AlignedByteBuffer).                                       *)

\* A faulty table that trims as many bytes as the address is past a boundary.
OffsetTable_Identity == <<0, 1, 2, 3>>

\* The table `[0, 3, 2, 1]` of offset_of_nearest_alignment_boundary.
OffsetTable == <<0, 3, 2, 1>>

\* offset_of_nearest_alignment_boundary: `[0, 3, 2, 1][address as usize % 4]`.
offset_of_nearest_alignment_boundary(address) == OffsetTable[(address % 4) + 1]

\* usize arithmetic on [carry, hi, lo]: the exact sum of a u32-sized value
\* and a small one.  A 32-bit usize has no carry bit to keep.
UsizeAdd(a, k) ==
    LET s == WideAdd(a, U32(0, k)) IN [carry |-> s.carry, hi |-> s.hi, lo |-> s.lo]
Truncate(x, usize_bits) == IF usize_bits = 32 THEN [x EXCEPT !.carry = 0] ELSE x

\* a <= b on [carry, hi, lo].
UsizeLeq(a, b) ==
    \/ a.carry < b.carry
    \/ a.carry = b.carry /\ ~U32Gt(U32(a.hi, a.lo), U32(b.hi, b.lo))

\* AlignedBufferData::uninitialized(len) when the allocator hands out
\* `address`.  `len + n_padding_bytes` overflows a 32-bit usize for the
\* largest lengths: a panic with overflow checks, a wrapped sum without.
\* Vec::with_capacity panics when asked for more than isize::MAX bytes.
Uninitialized(len, address, usize_bits, checks) ==
    LET sum == UsizeAdd(len, 3)
        cap == Truncate(sum, usize_bits)
    IN  IF usize_bits = 32 /\ sum.carry > 0 /\ checks THEN [NoAligned EXCEPT !.len = len]
        ELSE IF usize_bits = 32 /\ cap.hi >= Half \div 2 THEN [NoAligned EXCEPT !.len = len]
        ELSE [made |-> TRUE, cap |-> cap, len |-> len,
              offset |-> offset_of_nearest_alignment_boundary(address),
              address |-> address, slice |-> None]

\* Deref::deref: `&self.data[begin..end]` with begin = offset, end = begin + len.
\* The outcome is the slice's bounds, or a panic (of the addition, or of the
\* slicing when begin > end or end > data.len()).
Deref(buffer, usize_bits, checks) ==
    LET begin == [carry |-> 0, hi |-> 0, lo |-> buffer.offset]
        sum == UsizeAdd(buffer.len, buffer.offset)
        end == Truncate(sum, usize_bits)
    IN  IF usize_bits = 32 /\ sum.carry > 0 /\ checks THEN [panicked |-> TRUE]
        ELSE IF ~UsizeLeq(begin, end) \/ ~UsizeLeq(end, buffer.cap) THEN [panicked |-> TRUE]
        ELSE [panicked |-> FALSE, begin |-> begin, end |-> end]

\* Lengths a buffer is asked for: small ones and the ones around the ends of
\* the isize and u32 ranges.
Lengths ==
    {U32(0, k) : k \in 0..(4 * MaxWords)}
    \cup {U32(Half \div 2 - 1, Half - k) : k \in 1..4}
    \cup {U32(Half - 1, Half - k) : k \in 1..4}

\* Start addresses the allocator may hand out: every residue modulo 4.
Addresses == {4096 + k : k \in 0..7}

\* A caller is about to make a buffer of some length on some target.
InitAligned ==
    /\ overflow_checks \in BOOLEAN
    /\ \E len \in Lengths, usize_bits \in {32, 64} :
          input = [kind |-> "aligned", doc |-> None, scene |-> None, len |-> len,
                   usize_bits |-> usize_bits]
    /\ pc = "allocate"
    /\ raw = None
    /\ buffer_data = <<>> /\ image_data = <<>>
    /\ log = <<>>
    /\ errs = <<>>
    /\ warns = <<>>
    /\ result = None
    /\ lookup = NoLookup
    /\ iter = NoIter
    /\ visit = NoVisit
    /\ aligned = NoAligned
    /\ wire = NoWire

\* `AlignedBufferData::uninitialized(len)`: the allocator picks the address.
CallUninitialized ==
    /\ pc = "allocate"
    /\ \E address \in Addresses :
         /\ aligned' = Uninitialized(input.len, address, input.usize_bits, overflow_checks)
         /\ pc' = IF aligned'.made THEN "aligned" ELSE "allocate_panicked"
    /\ UNCHANGED <<overflow_checks, input, raw, buffer_data, image_data, log, errs, warns,
                   result, lookup, iter, visit, wire>>

\* `&buffer[..]` through Deref (or DerefMut, which has the same body).
CallDeref ==
    /\ pc = "aligned"
    /\ LET r == Deref(aligned, input.usize_bits, overflow_checks)
       IN  /\ aligned' = [aligned EXCEPT !.slice = IF r.panicked THEN None ELSE Some(r)]
           /\ pc' = IF r.panicked THEN "deref_panicked" ELSE "borrowed"
    /\ UNCHANGED <<overflow_checks, input, raw, buffer_data, image_data, log, errs, warns,
                   result, lookup, iter, visit, wire>>

NextAligned == CallUninitialized \/ CallDeref

SpecAligned == InitAligned /\ [][NextAligned]_vars

----------------------------------------------------------------------------
(* Properties of the aligned byte buffer. *)

----------------------------------------------------------------------------
(* The tree walk: IterNodes and IterChildNodes of scene.rs and              *)
(* tree/scene.rs, driven as visit_nodes of examples/walk_tree does.         *)

\* The walk is followed through at most MaxDepth nested iterators.
MaxDepth == 3

\* Node lists of a scene and of a node: in any order, with repeats, and with
\* an index past the document's nodes.
WalkLists == SeqsUpTo(0..(MaxIdx + 1), MaxList + 1)
WalkNodes == [camera : {None, Some(0)}, children : WalkLists, mesh : {None}, skin : {None}]

\* An iterator that has returned nothing yet: `index: 0`.
Frame(of, owner) == [of |-> of, owner |-> owner, index |-> 0, items |-> <<>>, state |-> "ready"]

\* The list an iterator goes through: self.scene.raw.nodes or
\* self.parent.raw.children.
ListOf(doc, frame) ==
    IF frame.of = "nodes" THEN doc.scenes[frame.owner + 1].nodes
    ELSE doc.nodes[frame.owner + 1].children

\* IterNodes::next and IterChildNodes::next: past the end None; else the
\* index moves on and Root::get resolves the entry, panicking when it
\* dangles.  The Node made has no parent (IterNodes) or the iterator's
\* parent (IterChildNodes).
NodeNext(doc, frame) ==
    LET list == ListOf(doc, frame)
    IN  IF frame.index < Len(list)
        THEN LET entry == list[frame.index + 1]
                 found == Get(doc.nodes, entry)
                 node == [node |-> entry,
                          parent |-> IF frame.of = "nodes" THEN None ELSE Some(frame.owner)]
             IN  IF found.panicked
                 THEN [panicked |-> TRUE, frame |-> [frame EXCEPT !.index = @ + 1]]
                 ELSE [panicked |-> FALSE,
                       frame |-> [frame EXCEPT !.index = @ + 1, !.items = Append(@, node),
                                               !.state = "yielded"]]
        ELSE [panicked |-> FALSE, frame |-> [frame EXCEPT !.state = "done"]]

\* The consumer holds a Root that passed Root::validate without an error
\* and starts `for node in scene.iter_nodes()` on its scene.
InitWalk ==
    /\ overflow_checks \in BOOLEAN
    /\ \E first \in WalkNodes, second \in WalkNodes,
          roots \in SeqsUpTo(Indices, MaxList + 1) :
          LET d == [PlainDoc(1) EXCEPT !.nodes = <<first, second>>,
                                      !.scenes = <<[nodes |-> roots]>>]
              r == RootValidate(d, overflow_checks)
          IN  /\ ~r.panicked
              /\ r.errs = <<>>
              /\ input = [kind |-> "json", doc |-> Some(d), scene |-> Some(d.default_scene)]
              /\ raw = Some(d)
              /\ buffer_data = [i \in 1..Len(d.buffers) |-> [len |-> d.buffers[i].byte_length]]
              /\ image_data = [i \in 1..Len(d.images) |-> [from |-> "Owned", index |-> 0]]
    /\ pc = "walk"
    /\ log = <<>>
    /\ errs = <<>>
    /\ warns = <<>>
    /\ result = None
    /\ lookup = NoLookup
    /\ iter = NoIter
    /\ visit = [NoVisit EXCEPT !.of = "walk", !.rest = <<Frame("nodes", 0)>>]
    /\ aligned = NoAligned
    /\ wire = NoWire

\* The innermost iterator of the walk.
Top == visit.rest[Len(visit.rest)]

\* IterNodes::next on the scene's iterator; a panic ends the consumer.
IterNodesNext ==
    /\ pc = "walk"
    /\ visit.rest # <<>>
    /\ Top.of = "nodes"
    /\ Top.state = "ready"
    /\ LET r == NodeNext(Unwrap(raw), Top)
       IN  /\ visit' = [visit EXCEPT !.rest[Len(visit.rest)] = r.frame]
           /\ pc' = IF r.panicked THEN "walk_panicked" ELSE pc
    /\ UNCHANGED <<overflow_checks, input, raw, buffer_data, image_data, log, errs, warns,
                   result, lookup, iter, aligned, wire>>

\* IterChildNodes::next on the innermost iterator; a panic ends the consumer.
IterChildNodesNext ==
    /\ pc = "walk"
    /\ visit.rest # <<>>
    /\ Top.of = "children"
    /\ Top.state = "ready"
    /\ LET r == NodeNext(Unwrap(raw), Top)
       IN  /\ visit' = [visit EXCEPT !.rest[Len(visit.rest)] = r.frame]
           /\ pc' = IF r.panicked THEN "walk_panicked" ELSE pc
    /\ UNCHANGED <<overflow_checks, input, raw, buffer_data, image_data, log, errs, warns,
                   result, lookup, iter, aligned, wire>>

\* visit_nodes(&node): Node::iter_child_nodes on the node just yielded.
VisitNodes ==
    /\ pc = "walk"
    /\ visit.rest # <<>>
    /\ Top.state = "yielded"
    /\ Len(visit.rest) < MaxDepth
    /\ visit' = [visit EXCEPT
                   !.rest = Append(@, Frame("children", Top.items[Len(Top.items)].node))]
    /\ UNCHANGED <<overflow_checks, input, pc, raw, buffer_data, image_data, log, errs, warns,
                   result, lookup, iter, aligned, wire>>

\* The end of a `for` loop: the iterator returned None and is dropped; the
\* loop around it goes on, or the walk is over.
LoopEnds ==
    /\ pc = "walk"
    /\ visit.rest # <<>>
    /\ Top.state = "done"
    /\ LET outer == SubSeq(visit.rest, 1, Len(visit.rest) - 1)
       IN  /\ visit' = [visit EXCEPT
                          !.rest = IF outer = <<>> THEN outer
                                   ELSE [outer EXCEPT ![Len(outer)].state = "ready"],
                          !.items = Append(@, Top)]
           /\ pc' = IF outer = <<>> THEN "walked" ELSE pc
    /\ UNCHANGED <<overflow_checks, input, raw, buffer_data, image_data, log, errs, warns,
                   result, lookup, iter, aligned, wire>>

NextWalk == IterNodesNext \/ IterChildNodesNext \/ VisitNodes \/ LoopEnds

SpecWalk == InitWalk /\ [][NextWalk]_vars

----------------------------------------------------------------------------
(* Properties of the tree walk. *)

\* What an iterator has to have yielded after `index` calls: the first
\* `index` entries of its list, in list order, with its parent.
Yielded(frame) ==
    [k \in 1..frame.index |->
        [node |-> ListOf(Unwrap(raw), frame)[k],
         parent |-> IF frame.of = "nodes" THEN None ELSE Some(frame.owner)]]

AsListed(frame) ==
    /\ frame.items = Yielded(frame)
    /\ frame.state = "done" => frame.index = Len(ListOf(Unwrap(raw), frame))

\* C24: iterating a scene's root nodes yields exactly the nodes of the
\* scene's node list, in list order, each with parent None; iterating a
\* node's children yields exactly the nodes of its children list, in list
\* order and with duplicates kept, each with the node iterated from as
\* parent; each iterator then returns None.
C24_TreeWalk ==
    visit.of = "walk" =>
       /\ pc # "walk_panicked"
       /\ \A k \in 1..Len(visit.rest) : AsListed(visit.rest[k])
       /\ \A k \in 1..Len(visit.items) : AsListed(visit.items[k])

\* C28: in a document that validated without errors no node is reachable
\* from itself through children references, so the depth-first walk from
\* the scenes' root nodes terminates: no node is visited below itself.
C28_WalkTerminates ==
    visit.of = "walk" =>
       \A j, k \in 1..Len(visit.rest) :
          (j < k /\ visit.rest[j].of = "children" /\ visit.rest[k].of = "children")
             => visit.rest[j].owner # visit.rest[k].owner

----------------------------------------------------------------------------
(* Index<T> through serde: Index::serialize and Index::deserialize of       *)
(* raw/root.rs.  A u64 is four 16-bit limbs, least significant first; a     *)
(* JSON number token is its kind and its decimal digits, most significant   *)
(* first.                                                                    *)

\* `value as u64`.
AsU64(value) == <<value.lo, value.hi, 0, 0>>

\* `value as u32`: the low 32 bits.
AsU32(n) == U32(n[2], n[1])

\* n divided by ten: the quotient and the remainder, by long division.
DivTen(n) ==
    LET c4 == n[4]
        c3 == (c4 % 10) * Half + n[3]
        c2 == (c3 % 10) * Half + n[2]
        c1 == (c2 % 10) * Half + n[1]
    IN  [quotient |-> <<c1 \div 10, c2 \div 10, c3 \div 10, c4 \div 10>>, digit |-> c1 % 10]

\* n * 10 + digit, with the carry out of the 64 bits.
TimesTenPlus(n, digit) ==
    LET c1 == n[1] * 10 + digit
        c2 == n[2] * 10 + c1 \div Half
        c3 == n[3] * 10 + c2 \div Half
        c4 == n[4] * 10 + c3 \div Half
    IN  [value |-> <<c1 % Half, c2 % Half, c3 % Half, c4 % Half>>, carry |-> c4 \div Half]

\* The decimal digits of n, none for zero.
RECURSIVE SignificantDigits(_)
SignificantDigits(n) ==
    IF n = <<0, 0, 0, 0>> THEN <<>>
    ELSE Append(SignificantDigits(DivTen(n).quotient), DivTen(n).digit)

\* Serializer::serialize_u64 of serde_json: the number in decimal.
WriteU64(n) ==
    [kind |-> "unsigned", digits |-> IF n = <<0, 0, 0, 0>> THEN <<0>> ELSE SignificantDigits(n)]

\* A faulty serializer that writes the index as a u16.
IndexSerialize_Narrow(value) == WriteU64(<<value.lo, 0, 0, 0>>)

\* Index::serialize: `serializer.serialize_u64(self.value() as u64)`.
IndexSerialize(value) == WriteU64(AsU64(value))

\* The u64 that the first k digits stand for, or the fact that they do not
\* fit in 64 bits.
RECURSIVE ReadDigits(_, _)
ReadDigits(digits, k) ==
    IF k = 0 THEN [fits |-> TRUE, value |-> <<0, 0, 0, 0>>]
    ELSE LET before == ReadDigits(digits, k - 1)
             now == TimesTenPlus(before.value, digits[k])
         IN  IF ~before.fits \/ now.carry > 0
             THEN [fits |-> FALSE, value |-> <<0, 0, 0, 0>>]
             ELSE [fits |-> TRUE, value |-> now.value]

\* Index::deserialize: `deserializer.deserialize_u64(visitor)`.  serde_json
\* hands a non-negative integer that fits in a u64 to visit_u64, which
\* returns `Ok(Index::new(value as u32))`; a negative integer goes to
\* visit_i64 and a fraction, or an integer beyond u64, to visit_f64, which
\* the visitor does not implement: an invalid-type error.
IndexDeserialize(token) ==
    LET read == ReadDigits(token.digits, Len(token.digits))
    IN  IF token.kind = "unsigned" /\ read.fits
        THEN [ok |-> TRUE, value |-> AsU32(read.value)]
        ELSE [ok |-> FALSE, value |-> U32(0, 0)]

\* Index values and input integers: around the ends of 16, 32 and 64 bits.
Edge == {0, 1, 9, 10, Half - 1}
IndexValues == {U32(h, l) : h \in Edge, l \in Edge}
InputIntegers == {<<l, h, x, y>> : l \in {0, 1}, h \in {0, 1, Half - 1}, x \in Edge, y \in {0, Half - 1}}

\* 2^64, the least integer that does not fit in a u64.
TwoToThe64 == <<1, 8, 4, 4, 6, 7, 4, 4, 0, 7, 3, 7, 0, 9, 5, 5, 1, 6, 1, 6>>

InputTokens ==
    {[kind |-> k, digits |-> SignificantDigits(n)] :
        k \in {"unsigned", "negative", "fraction"}, n \in InputIntegers \ {<<0, 0, 0, 0>>}}
    \cup {[kind |-> "unsigned", digits |-> d] : d \in {<<0>>, TwoToThe64}}

\* An Index of a document is about to be written, or a number token of an
\* input document is about to be read as an Index.
InitIndex ==
    /\ overflow_checks \in BOOLEAN
    /\ \/ \E value \in IndexValues :
             /\ wire = [NoWire EXCEPT !.value = Some(value)]
             /\ pc = "serialize"
       \/ \E token \in InputTokens :
             /\ wire = [NoWire EXCEPT !.token = Some(token)]
             /\ pc = "deserialize"
    /\ input = [kind |-> "index", doc |-> None, scene |-> None]
    /\ raw = None
    /\ buffer_data = <<>> /\ image_data = <<>>
    /\ log = <<>>
    /\ errs = <<>>
    /\ warns = <<>>
    /\ result = None
    /\ lookup = NoLookup
    /\ iter = NoIter
    /\ visit = NoVisit
    /\ aligned = NoAligned

\* The Index is serialized; the token is what a later parse reads.
CallIndexSerialize ==
    /\ pc = "serialize"
    /\ wire' = [wire EXCEPT !.token = Some(IndexSerialize(Unwrap(wire.value)))]
    /\ pc' = "deserialize"
    /\ UNCHANGED <<overflow_checks, input, raw, buffer_data, image_data, log, errs, warns,
                   result, lookup, iter, visit, aligned>>

\* The token is deserialized as an Index.
CallIndexDeserialize ==
    /\ pc = "deserialize"
    /\ wire' = [wire EXCEPT !.parsed = Some(IndexDeserialize(Unwrap(wire.token)))]
    /\ pc' = "deserialized"
    /\ UNCHANGED <<overflow_checks, input, raw, buffer_data, image_data, log, errs, warns,
                   result, lookup, iter, visit, aligned>>

NextIndex == CallIndexSerialize \/ CallIndexDeserialize

SpecIndex == InitIndex /\ [][NextIndex]_vars

----------------------------------------------------------------------------
(* Properties of Index through serde. *)

\* C25: for every index value v in the u32 range, deserializing the
\* serialized form of Index(v) gives an Index with value v.
C25_RoundTrip ==
    (pc = "deserialized" /\ IsSome(wire.value)) =>
       Unwrap(wire.parsed) = [ok |-> TRUE, value |-> Unwrap(wire.value)]

\* The largest u32, 4294967295, went through both ways.
C25_Witness ==
    /\ pc = "deserialized"
    /\ wire.value = Some(U32(Half - 1, Half - 1))
    /\ Unwrap(wire.token).digits = <<4, 2, 9, 4, 9, 6, 7, 2, 9, 5>>
    /\ Unwrap(wire.parsed).ok

\* The token read from an input stands for an integer beyond 32 bits.
BeyondU32 ==
    LET read == ReadDigits(Unwrap(wire.token).digits, Len(Unwrap(wire.token).digits))
    IN  Unwrap(wire.token).kind = "unsigned"
        /\ (~read.fits \/ read.value[3] > 0 \/ read.value[4] > 0)

\* C29: an index written in the input as an integer n that does not fit in
\* 32 bits is rejected as a parse error, and is never accepted as the index
\* n mod 2^32.
C29_NoTruncation ==
    (pc = "deserialized" /\ IsNone(wire.value) /\ BeyondU32) => ~Unwrap(wire.parsed).ok

----------------------------------------------------------------------------
(* Properties of the animation check. *)

\* The number of references of an animation that do not resolve.
DanglingOfAnimation(animation) ==
    Cardinality({j \in 1..Len(animation.samplers) :
                    ~Resolves(animation.samplers[j].input, Doc.accessors)})
    + Cardinality({j \in 1..Len(animation.samplers) :
                      ~Resolves(animation.samplers[j].output, Doc.accessors)})
    + Cardinality({j \in 1..Len(animation.channels) :
                      ~Resolves(animation.channels[j].target.node, Doc.nodes)})
    + Cardinality({j \in 1..Len(animation.channels) :
                      animation.channels[j].sampler >= Len(animation.samplers)})

\* C27: when Root::validate has returned, each animation has exactly one
\* "Index out of range" error for each sampler input and each sampler output
\* that does not resolve in the accessors, for each channel whose target node
\* does not resolve in the nodes, and for each channel whose sampler index is
\* not below the number of samplers of that animation, with the path of the
\* offending field as source: samplers[i].input, samplers[i].output,
\* channels[i].target.node, channels[i].sampler.
C27_AnimationDiagnostics ==
    ValidateReturned =>
        \A i \in 1..Len(Doc.animations) :
           LET animation == Doc.animations[i]
               report == ValidateAnimation(Doc, animation)
           IN  /\ \A j \in 1..Len(animation.samplers) :
                     /\ OutOfRange(Source("animations", i, Entry("samplers", j) \o ".input"))
                           = Dangling(Resolves(animation.samplers[j].input, Doc.accessors))
                     /\ OutOfRange(Source("animations", i, Entry("samplers", j) \o ".output"))
                           = Dangling(Resolves(animation.samplers[j].output, Doc.accessors))
               /\ \A j \in 1..Len(animation.channels) :
                     /\ OutOfRange(Source("animations", i, Entry("channels", j) \o ".target.node"))
                           = Dangling(Resolves(animation.channels[j].target.node, Doc.nodes))
                     /\ OutOfRange(Source("animations", i, Entry("channels", j) \o ".sampler"))
                           = Dangling(animation.channels[j].sampler < Len(animation.samplers))
               /\ Len(report.errs) = DanglingOfAnimation(animation)
               /\ AllOutOfRange(report.errs) /\ report.warns = <<>>

----------------------------------------------------------------------------
(* import of documents with several entities in several collections, from *)
(* the call of Root::validate on.                                          *)

MaxEntities == 2

\* a camera with a warning and an error, and one with neither
OrderCameras ==
    {PlainCamera,
     [ty |-> "orthographic", orthographic |-> None, perspective |-> Some("perspective")]}

\* a node whose skin does not resolve
OrderNode == [PlainNode EXCEPT !.skin = Some(0)]

\* a view longer than its buffer, and one whose end does not fit in 32 bits
OrderViews ==
    {[PlainBufferView EXCEPT !.byte_length = U32(0, 16)],
     [PlainBufferView EXCEPT !.byte_offset = U32(Half - 1, Half - 4), !.byte_length = U32(0, 8)]}

\* Documents of one buffer and one scene with up to MaxEntities buffer views,
\* cameras, nodes and textures; no node resolves its skin, and no texture its
\* sampler or its image.
OrderDocs ==
    {[PlainDoc(0) EXCEPT !.buffers = <<PlainBuffer>>, !.buffer_views = v, !.cameras = c,
                         !.nodes = Repeat(OrderNode, n),
                         !.textures = Repeat(PlainTexture, t)] :
        v \in SeqsUpTo(OrderViews, MaxEntities), c \in SeqsUpTo(OrderCameras, MaxEntities),
        n \in 0..MaxEntities, t \in 0..MaxEntities}

\* import has read the document and Root::load has returned Ok.
InitOrder ==
    /\ \E d \in OrderDocs :
          /\ input = [kind |-> "json", doc |-> Some(d), scene |-> Some(d.default_scene)]
          /\ raw = Some(d)
          /\ buffer_data = [i \in 1..Len(d.buffers) |-> [len |-> d.buffers[i].byte_length]]
          /\ image_data = <<>>
    /\ overflow_checks \in BOOLEAN
    /\ pc = "validate"
    /\ log = <<>>
    /\ errs = <<>>
    /\ warns = <<>>
    /\ result = None
    /\ lookup = NoLookup
    /\ iter = NoIter
    /\ visit = NoVisit
    /\ aligned = NoAligned
    /\ wire = NoWire

NextOrder == Validate \/ ImportReturn

SpecOrder == InitOrder /\ [][NextOrder]_vars

----------------------------------------------------------------------------
(* Properties of the order of the diagnostics. *)

\* The parts of the pass in the order claimed; "scene" is the check of the
\* default scene, which is no collection.
VisitOrder ==
    <<"accessors", "animations", "buffers", "buffer_views", "cameras", "images", "materials",
      "meshes", "nodes", "scenes", "skins", "scene", "textures">>

\* The diagnostics of one list (which = "warns" or "errs") that entity number
\* i - 1 of part k reports, as Root::validate emits them.
DiagsOf(which, k, i) ==
    IF VisitOrder[k] = "scene" THEN DefaultSceneReport(Doc)[which]
    ELSE Prefixed(EntityReport(VisitOrder[k], Doc, Doc[VisitOrder[k]][i], overflow_checks)[which],
                  PrefixOf(VisitOrder[k]), i - 1)

\* the pairs <<part, entity>> of a document
Slots ==
    {<<k, i>> \in (1..Len(VisitOrder)) \X (1..(MaxEntities + 1)) :
        IF VisitOrder[k] = "scene" THEN i = 1 ELSE i <= Len(Doc[VisitOrder[k]])}

\* the pairs whose entity reports the diagnostic
SlotsOf(which, diag) ==
    {s \in Slots : LET diags == DiagsOf(which, s[1], s[2])
                   IN  \E n \in 1..Len(diags) : diags[n] = diag}

NotAfter(a, b) == a[1] < b[1] \/ (a[1] = b[1] /\ a[2] <= b[2])

\* Each diagnostic of the list belongs to one entity, and no diagnostic of an
\* entity or a part comes after one of a later entity or part.
InVisitOrder(which, list) ==
    LET slots == [m \in 1..Len(list) |-> SlotsOf(which, list[m])]
    IN  /\ \A m \in 1..Len(list) : Cardinality(slots[m]) = 1
        /\ \A m \in 1..(Len(list) - 1) :
              \A a \in slots[m], b \in slots[m + 1] : NotAfter(a, b)

\* the diagnostics of the list that the entity of a pair reports
EmittedFor(which, list, slot) ==
    SelectSeq(list, LAMBDA d : slot \in SlotsOf(which, d))

----------------------------------------------------------------------------
(* Properties of Root::load. *)

\* Root::load has just returned Ok(root).
LoadReturnedOk == pc = "validate"

\* The pre-loaded data of a Root: one entry per buffer, each of the buffer's
\* byte_length bytes, and one entry per image.
Preloaded ==
    /\ Len(buffer_data) = Len(Doc.buffers)
    /\ \A i \in 1..Len(Doc.buffers) : buffer_data[i].len = Doc.buffers[i].byte_length
    /\ Len(image_data) = Len(Doc.images)

\* C30: Root::load never panics: it returns a LoadError, or Ok(root) with one
\* pre-loaded entry per buffer, entry i of exactly buffers[i].byte_length
\* bytes, and one entry per image; an image with neither a buffer view nor a
\* uri makes it return an error value.
C30_LoadTotal ==
    /\ pc # "load_panicked"
    /\ LoadReturnedOk => Preloaded

====
